---- MODULE Spec2Model ----
(***************************************************************************)
(* Order Tracker demo: the Express server (src/unnamed/part_001) and the    *)
(* script of its page (src/unnamed/part_000).                              *)
(*                                                                         *)
(* Strings that the code inspects character by character (order ids,       *)
(* e-mail addresses, chat messages, tracking codes) are sequences of       *)
(* one-character strings, so that trim, toLowerCase, indexOf and the       *)
(* regular expressions are computed as the code computes them.  Status     *)
(* names, routes and error texts are only compared for equality and are    *)
(* plain strings.  JavaScript's undefined is the string "undefined".       *)
(* Coordinates are integers in units of 1e-4 degree.                       *)
(***************************************************************************)
EXTENDS Integers, Sequences, FiniteSets, TLC

\* ------------------------------------------------------------------------
\* Bounds of the model
\* ------------------------------------------------------------------------
\* most records the subscription file holds
MaxSubs == 2
\* most requests that wait for an external call at one time
MaxInflight == 1
\* most requests that wait for the mail transport at one time where the
\* handlers are followed side by side
MaxWaiting == 2
\* most event streams open at one time
MaxStreams == 1
\* most calls of geocodePlace that wait for the geocoding service at one time
MaxLookups == 2

\* ------------------------------------------------------------------------
\* Characters and strings
\* ------------------------------------------------------------------------
LowerLetters == <<"a","b","c","d","e","f","g","h","i","j","k","l","m",
                  "n","o","p","q","r","s","t","u","v","w","x","y","z">>
UpperLetters == <<"A","B","C","D","E","F","G","H","I","J","K","L","M",
                  "N","O","P","Q","R","S","T","U","V","W","X","Y","Z">>
DigitChars == {"0","1","2","3","4","5","6","7","8","9"}
LowerSet == {LowerLetters[i] : i \in DOMAIN LowerLetters}
UpperSet == {UpperLetters[i] : i \in DOMAIN UpperLetters}
LetterSet == LowerSet \cup UpperSet
\* \w of a JavaScript regular expression
WordChars == LetterSet \cup DigitChars \cup {"_"}
\* white space String.prototype.trim removes and \s matches
SpaceChars == {" "}

\* String.prototype.toLowerCase, one character
LowerChar(c) ==
  IF c \in UpperSet
    THEN LowerLetters[CHOOSE i \in DOMAIN UpperLetters : UpperLetters[i] = c]
    ELSE c

\* String.prototype.toLowerCase
ToLower(s) == [i \in DOMAIN s |-> LowerChar(s[i])]

\* String.prototype.trim
Trim(s) ==
  LET keep == {i \in DOMAIN s : s[i] \notin SpaceChars}
  IN  IF keep = {} THEN <<>>
      ELSE LET lo == CHOOSE i \in keep : \A j \in keep : i <= j
               hi == CHOOSE i \in keep : \A j \in keep : j <= i
           IN  SubSeq(s, lo, hi)

\* String.prototype.indexOf for one character: 0-based, -1 when absent
IndexOf(s, c) ==
  LET hits == {i \in DOMAIN s : s[i] = c}
  IN  IF hits = {} THEN -1
      ELSE (CHOOSE i \in hits : \A j \in hits : i <= j) - 1

\* String.prototype.slice(from, to) with 0-based bounds inside the string
Slice(s, from, to) == SubSeq(s, from + 1, to)

SetMax(S) == CHOOSE x \in S : \A y \in S : y <= x
SetMin(S) == CHOOSE x \in S : \A y \in S : x <= y

\* ------------------------------------------------------------------------
\* Regular expressions.  A pattern is a record tagged by t; Ends(r, s, i) is
\* the set of positions at which a match of r that starts after the first i
\* characters of s can end.
\* ------------------------------------------------------------------------
Lit(str) == [t |-> "lit", s |-> str]
Cls(set) == [t |-> "cls", c |-> set]
AnyChar == [t |-> "any"]
WordBoundary == [t |-> "wb"]
Cat(rs) == [t |-> "cat", rs |-> rs]
Alt(rs) == [t |-> "alt", rs |-> rs]
Star(r) == [t |-> "rep", r |-> r, lo |-> 0, hi |-> -1]
Plus(r) == [t |-> "rep", r |-> r, lo |-> 1, hi |-> -1]
Opt(r) == [t |-> "rep", r |-> r, lo |-> 0, hi |-> 1]
Rep(r, lo, hi) == [t |-> "rep", r |-> r, lo |-> lo, hi |-> hi]

IsWordAt(s, i) == i \in DOMAIN s /\ s[i] \in WordChars

RECURSIVE Ends(_, _, _)
RECURSIVE EndsCat(_, _, _, _)
RECURSIVE EndsRep(_, _, _, _, _, _)

Ends(r, s, i) ==
  CASE r.t = "lit" ->
         IF i + Len(r.s) <= Len(s) /\ SubSeq(s, i + 1, i + Len(r.s)) = r.s
           THEN {i + Len(r.s)} ELSE {}
    [] r.t = "cls" -> IF i < Len(s) /\ s[i + 1] \in r.c THEN {i + 1} ELSE {}
    [] r.t = "any" -> IF i < Len(s) THEN {i + 1} ELSE {}
    [] r.t = "wb" -> IF IsWordAt(s, i) # IsWordAt(s, i + 1) THEN {i} ELSE {}
    [] r.t = "cat" -> EndsCat(r.rs, 1, s, {i})
    [] r.t = "alt" -> UNION {Ends(r.rs[k], s, i) : k \in DOMAIN r.rs}
    [] r.t = "rep" -> EndsRep(r.r, r.lo, r.hi, s, {i}, 0)

\* the patterns rs[k..] in sequence, started at any position of from
EndsCat(rs, k, s, from) ==
  IF k > Len(rs) \/ from = {} THEN from
  ELSE EndsCat(rs, k + 1, s, UNION {Ends(rs[k], s, i) : i \in from})

\* r repeated lo..hi times (hi = -1: no upper limit); from holds the
\* positions reached after n repetitions
EndsRep(r, lo, hi, s, from, n) ==
  LET here == IF n >= lo THEN from ELSE {}
      step == UNION {Ends(r, s, i) : i \in from} \ (IF n >= lo THEN from ELSE {})
  IN  IF from = {} \/ (hi >= 0 /\ n >= hi) \/ step = {} THEN here
      ELSE here \cup EndsRep(r, lo, hi, s, step, n + 1)

\* RegExp.prototype.test for an unanchored pattern
Test(r, s) == \E i \in 0..Len(s) : Ends(r, s, i) # {}

\* RegExp.prototype.test for a pattern written ^...$
TestWhole(r, s) == Len(s) \in Ends(r, s, 0)

\* RegExp.prototype.test for a pattern written ^...
TestPrefix(r, s) == Ends(r, s, 0) # {}

\* String.prototype.match without the g flag, for a pattern whose greedy
\* match is its longest one: the leftmost match, <<>> when there is none
FirstMatch(r, s) ==
  LET starts == {i \in 0..Len(s) : Ends(r, s, i) # {}}
  IN  IF starts = {} THEN <<>>
      ELSE LET i == SetMin(starts)
           IN  SubSeq(s, i + 1, SetMax(Ends(r, s, i)))

\* String.prototype.match with the g flag, for a pattern that matches no
\* empty string: the matches from position p on, left to right
RECURSIVE MatchesFrom(_, _, _)
MatchesFrom(r, s, p) ==
  LET starts == {i \in p..Len(s) : Ends(r, s, i) # {}}
  IN  IF starts = {} THEN <<>>
      ELSE LET i == SetMin(starts)
               e == SetMax(Ends(r, s, i))
           IN  <<SubSeq(s, i + 1, e)>> \o MatchesFrom(r, s, e)

AllMatches(r, s) == MatchesFrom(r, s, 0)


\* ------------------------------------------------------------------------
\* Status table and demo data
\* ------------------------------------------------------------------------
Undefined == "undefined"
\* an absent coordinate pair or polyline (undefined / null in the code)
NoPoint == <<>>

statusMeta ==
  ("Processing" :> 25) @@ ("Packed" :> 35) @@ ("Shipped" :> 50) @@
  ("In Transit" :> 70) @@ ("Out for Delivery" :> 85) @@ ("Delivered" :> 100) @@
  ("Canceled" :> 0) @@ ("Returned" :> 0)

\* the fixed status set: the keys of statusMeta
StatusSet == DOMAIN statusMeta

Id1001 == <<"1","0","0","1">>
Id1002 == <<"1","0","0","2">>
Id1003 == <<"1","0","0","3">>
Id1004 == <<"1","0","0","4">>
IdO3000034 == <<"O","_","I","D","_","3","0","0","0","0","3","4">>
\* an id that is no property of the order table
Id9999 == <<"9","9","9","9">>
\* Id1001 as a client may send it, with white space around it
Id1001Padded == <<" ","1","0","0","1"," ">>
\* a property every JavaScript object inherits from Object.prototype
IdConstructor == <<"c","o","n","s","t","r","u","c","t","o","r">>

SeedOrders ==
  (Id1001 :> [status |-> "Processing", origin |-> <<286139, 772090>>,
              dest |-> <<190760, 728777>>, originName |-> "Delhi", destName |-> "Mumbai"]) @@
  (Id1002 :> [status |-> "Shipped", origin |-> <<129716, 775946>>,
              dest |-> <<130827, 802707>>, originName |-> "Bengaluru", destName |-> "Chennai"]) @@
  (Id1003 :> [status |-> "Out for Delivery", origin |-> <<225726, 883639>>,
              dest |-> <<225726, 883639>>, originName |-> "Kolkata", destName |-> "Kolkata"]) @@
  (Id1004 :> [status |-> "Delivered", origin |-> <<173850, 784867>>,
              dest |-> <<173850, 784867>>, originName |-> "Hyderabad", destName |-> "Hyderabad"]) @@
  (IdO3000034 :> [status |-> "Shipped", origin |-> <<286139, 772090>>,
              dest |-> <<269124, 757873>>, originName |-> "Delhi", destName |-> "Jaipur"])

\* demoOrders is an object literal, so demoOrders[key] also finds what the
\* object inherits from Object.prototype; the model follows one such key
InheritedKeys == {IdConstructor}

\* null (the empty tuple, so that it compares with coordinates, ids and
\* routes), and the object {} loadGeoCache returns for a missing file
Null == <<>>
EmptyCache == [key \in {} |-> Null]
\* no browser page is open
ClosedPage == Null

\* ------------------------------------------------------------------------
\* State
\* ------------------------------------------------------------------------
VARIABLES
  \* the order table: own properties of demoOrders
  demoOrders,
  \* the status property of each inherited value (of the function Object)
  inherited,
  \* subscriptions.json: whether it exists, and the records it holds
  subsExists,
  subsFile,
  \* whether setupEmailTransporter created a transporter at startup
  emailTransporter,
  \* process.env: whether AFTERSHIP_API_KEY and OPENAI_API_KEY are set
  env,
  \* geocode-cache.json: the object it holds, from place key to hit
  geoCache,
  \* the calls of geocodePlace that wait for the geocoding service, each
  \* with the cache object it loaded
  geoLookups,
  \* handlers suspended at an await on the mail transport, oldest first
  inflight,
  \* the event streams: for each connection that is open or has an interval
  \* timer, the order id, whether it is open, and the number of its timers
  streams,
  \* the response sent, or the stream event written, last
  res,
  \* the browser page: its script variables, its two toggles, what it shows
  \* and the requests it waits for; ClosedPage while no page is open
  page

vars == <<demoOrders, inherited, subsExists, subsFile, emailTransporter, env, geoCache, geoLookups,
          inflight, streams, res, page>>

\* the routes, as the names of the responses
GetTrack == "GET /api/track"
GetTrackParam == "GET /api/track/:orderId"
PostTrack == "POST /api/track"
PostSubscribe == "POST /api/subscribe"
PostAdvance == "POST /api/admin/advance/:orderId"
GetOrderDetail == "GET /api/orders/:orderId"
GetEta == "GET /api/eta/:orderId"
PostReturns == "POST /api/returns"
GetAnalytics == "GET /api/analytics"
GetSearch == "GET /api/search"
GetOrders == "GET /api/orders"
GetStream == "GET /api/stream/:orderId"
GetTrackCarrier == "GET /api/track-carrier"
PostTrackAny == "POST /api/track-any"
PostChat == "POST /api/chat"
PostChatAI == "POST /api/chat-ai"
TrackOps == {GetTrack, GetTrackParam, PostTrack}

NoBody == [none |-> TRUE]
\* the requests a handler made to the tracking provider and to the AI provider
NoCalls == [carrier |-> 0, ai |-> 0]
NoResponse ==
  [op |-> "none", id |-> <<>>, code |-> 0, error |-> "", body |-> NoBody, calls |-> NoCalls]
Reply(op, id, code, body) ==
  [op |-> op, id |-> id, code |-> code, error |-> "", body |-> body, calls |-> NoCalls]
Fail(op, id, code, error) ==
  [op |-> op, id |-> id, code |-> code, error |-> error, body |-> NoBody, calls |-> NoCalls]
\* the response r of a handler that made these provider requests
After(carrierCalls, aiCalls, r) ==
  [r EXCEPT !.calls = [carrier |-> carrierCalls, ai |-> aiCalls]]

Init ==
  /\ demoOrders = SeedOrders
  /\ inherited = [k \in InheritedKeys |-> Undefined]
  /\ subsExists = FALSE
  /\ subsFile = <<>>
  /\ emailTransporter \in BOOLEAN
  /\ env = [AFTERSHIP_API_KEY |-> FALSE, OPENAI_API_KEY |-> FALSE]
  /\ geoCache = EmptyCache
  /\ geoLookups = <<>>
  /\ inflight = <<>>
  /\ streams = <<>>
  /\ res = NoResponse
  /\ page = ClosedPage

\* ------------------------------------------------------------------------
\* Tracking data access
\* ------------------------------------------------------------------------
\* demoOrders[id] as the code reads it: an own property, else an inherited
\* one (which has no origin, dest or names), else undefined
LookupIn(orders, inh, id) ==
  IF id \in DOMAIN orders
    THEN [found |-> TRUE, own |-> TRUE, status |-> orders[id].status,
          origin |-> orders[id].origin, dest |-> orders[id].dest,
          originName |-> orders[id].originName, destName |-> orders[id].destName]
  ELSE IF id \in DOMAIN inh
    THEN [found |-> TRUE, own |-> FALSE, status |-> inh[id],
          origin |-> NoPoint, dest |-> NoPoint,
          originName |-> Undefined, destName |-> Undefined]
  ELSE [found |-> FALSE, own |-> FALSE, status |-> Undefined,
        origin |-> NoPoint, dest |-> NoPoint,
        originName |-> Undefined, destName |-> Undefined]

LookupOrder(id) == LookupIn(demoOrders, inherited, id)

\* mutant: every status has the progress of an unknown one
ProgressFlat(status) == 40

\* statusMeta[status] ?? 40
ProgressOf(status) == IF status \in DOMAIN statusMeta THEN statusMeta[status] ELSE 40

\* the 3-point polyline, in units of 0.5e-4 degree so that the midpoint
\* (o + d) / 2 + 0.5 stays an integer
buildPolyline(origin, dest) ==
  IF origin = NoPoint \/ dest = NoPoint THEN NoPoint
  ELSE << <<2 * origin[1], 2 * origin[2]>>,
          <<origin[1] + dest[1] + 10000, origin[2] + dest[2]>>,
          <<2 * dest[1], 2 * dest[2]>> >>

\* mutant: the id is used as it was sent
normalizeOrderIdAsSent(input) == input

normalizeOrderId(input) == Trim(input)

\* mutant: the ratio is measured from the destination
ClampRatioFromDest(progress) == 100 - progress

\* Math.max(0, Math.min(1, (progress||0)/100)), in hundredths
ClampRatio(progress) == IF progress < 0 THEN 0 ELSE IF progress > 100 THEN 100 ELSE progress

\* current is in units of 1e-6 degree: origin * 100 + (dest - origin) * r
buildUnifiedResponse(rec) ==
  LET progress == ProgressOf(rec.status)
      r == ClampRatio(progress)
  IN  [status |-> rec.status,
       progress |-> progress,
       origin |-> rec.origin,
       dest |-> rec.dest,
       polyline |-> buildPolyline(rec.origin, rec.dest),
       current |-> IF rec.origin = NoPoint \/ rec.dest = NoPoint THEN NoPoint
                   ELSE <<100 * rec.origin[1] + (rec.dest[1] - rec.origin[1]) * r,
                          100 * rec.origin[2] + (rec.dest[2] - rec.origin[2]) * r>>,
       originName |-> rec.originName,
       destName |-> rec.destName]

\* getDemoTracking(orderId) for a record the lookup found
getDemoTracking(rec) ==
      [status |-> rec.status,
       progress |-> ProgressOf(rec.status),
       origin |-> rec.origin,
       dest |-> rec.dest,
       polyline |-> buildPolyline(rec.origin, rec.dest)]

\* the three track handlers share their tail: 400, 404 or the unified response
TrackReply(op, orderId) ==
  IF orderId = <<>> THEN Fail(op, orderId, 400, "orderId required")
  ELSE IF ~LookupOrder(orderId).found THEN Fail(op, orderId, 404, "Order not found")
  ELSE Reply(op, orderId, 200, buildUnifiedResponse(LookupOrder(orderId)))

\* a || b || c on strings: the first that is not empty
FirstTruthy(a, b, c) == IF a # <<>> THEN a ELSE IF b # <<>> THEN b ELSE c

\* ids that requests carry
RawIds == {Id1001Padded, Id9999, IdConstructor, <<>>}

\* query strings of GET /api/track: orderId, id and order_id, <<>> when absent
TrackQueries ==
  {[orderId |-> x, id |-> <<>>, order_id |-> <<>>] : x \in RawIds} \cup
  {[orderId |-> <<>>, id |-> <<>>, order_id |-> Id1004]}

\* GET /api/track?orderId=...
TrackGet(q) ==
  /\ res' = TrackReply(GetTrack, normalizeOrderId(FirstTruthy(q.orderId, q.id, q.order_id)))
  /\ UNCHANGED <<demoOrders, inherited, subsExists, subsFile, emailTransporter, env, geoCache, geoLookups, inflight, streams, page>>

\* GET /api/track/:orderId
TrackParam(raw) ==
  /\ res' = TrackReply(GetTrackParam, normalizeOrderId(raw))
  /\ UNCHANGED <<demoOrders, inherited, subsExists, subsFile, emailTransporter, env, geoCache, geoLookups, inflight, streams, page>>

\* /[A-Za-z]*\d[A-Za-z0-9_\-]*/
TokenRe ==
  Cat(<<Star(Cls(LetterSet)), Cls(DigitChars),
        Star(Cls(LetterSet \cup DigitChars \cup {"_", "-"}))>>)

\* bodies of POST /api/track: orderId, id, order_id and query, <<>> when absent
TrackBodies ==
  {[orderId |-> x, id |-> <<>>, order_id |-> <<>>, query |-> <<>>] : x \in RawIds} \cup
  {[orderId |-> <<>>, id |-> <<>>, order_id |-> <<>>, query |-> x] :
      x \in {<<"t","r","a","c","k"," ","1","0","0","1">>, <<"h","e","l","l","o">>}}

\* the order id POST /api/track works with
PostOrderId(body) ==
  LET orderId == normalizeOrderId(FirstTruthy(body.orderId, body.id, body.order_id))
  IN  IF orderId = <<>> /\ body.query # <<>> THEN FirstMatch(TokenRe, body.query)
      ELSE orderId

\* POST /api/track { orderId }
TrackPost(body) ==
  /\ res' = TrackReply(PostTrack, PostOrderId(body))
  /\ UNCHANGED <<demoOrders, inherited, subsExists, subsFile, emailTransporter, env, geoCache, geoLookups, inflight, streams, page>>

\* ------------------------------------------------------------------------
\* E-mail
\* ------------------------------------------------------------------------
\* how the race of sendMail and the 10 s timer ends for one message: sendMail
\* resolves, or the race rejects (sendMail rejects or the timer fires first;
\* the catch block treats both alike)
MailOutcomes == {"sent", "rejected", "timeout"}

\* mutant: the send is awaited without the timer beside it
RaceWithoutTimer(outcome) == outcome \in {"sent", "rejected"}

\* Promise.race([sendMail, timeoutPromise]) settles: the send resolves
\* ("sent"), the send rejects ("rejected"), or neither happens and the timer
\* rejects after 10 s ("timeout")
RaceSettles(outcome) == outcome \in {"sent", "rejected", "timeout"}

\* mutant: sendEmailNotification reports a sent message whatever happened
EmailResultSent(outcome) == [success |-> TRUE, reason |-> ""]

\* the value sendEmailNotification resolves to
EmailResult(outcome) ==
  CASE outcome = "unconfigured" -> [success |-> FALSE, reason |-> "Email not configured"]
    [] outcome = "sent" -> [success |-> TRUE, reason |-> ""]
    [] outcome = "rejected" -> [success |-> FALSE, reason |-> "err.message"]
    [] outcome = "timeout" -> [success |-> FALSE, reason |-> "Email timeout after 10s"]

\* one call of sendEmailNotification by notifySubscribers: the recipient and
\* the two statuses its subject and text carry (notifySubscribers drops the
\* value the call resolves to)
Attempt(to, oldStatus, newStatus) ==
  [to |-> to, oldStatus |-> oldStatus, newStatus |-> newStatus]

\* a handler suspended in sendEmailNotification
Suspended(kind, id, email, oldStatus, newStatus, orderSubs, nsubs) ==
  [kind |-> kind, id |-> id, email |-> email, oldStatus |-> oldStatus,
   newStatus |-> newStatus, orderSubs |-> orderSubs, attempts |-> <<>>, nsubs |-> nsubs]

RemoveAt(seq, k) == SubSeq(seq, 1, k - 1) \o SubSeq(seq, k + 1, Len(seq))

\* ------------------------------------------------------------------------
\* Subscriptions
\* ------------------------------------------------------------------------
\* e-mail addresses that requests carry
RawEmails == {<<" ","A","@","x",".","i","o">>, <<>>}

\* mutant: the file is read as empty
ReadSubsEmpty == <<>>

\* the records subscribe and notifySubscribers read from subscriptions.json
ReadSubs == IF subsExists THEN subsFile ELSE <<>>

SubscribeBody(emailResult) == [ok |-> TRUE, emailSent |-> emailResult.success]

\* POST /api/subscribe { orderId, email }, up to its await, while fewer
\* than limit handlers wait for the mail transport
SubscribeUpTo(limit, orderId, email) ==
  LET id == normalizeOrderId(orderId)
      em == ToLower(Trim(email))
      op == PostSubscribe
  IN  IF id = <<>> \/ em = <<>>
        THEN /\ res' = Fail(op, id, 400, "orderId and email required")
             /\ UNCHANGED <<demoOrders, inherited, subsExists, subsFile, emailTransporter, env, geoCache, geoLookups, inflight, streams, page>>
      ELSE IF ~LookupOrder(id).found
        THEN /\ res' = Fail(op, id, 404, "Order not found")
             /\ UNCHANGED <<demoOrders, inherited, subsExists, subsFile, emailTransporter, env, geoCache, geoLookups, inflight, streams, page>>
      ELSE /\ Len(ReadSubs) < MaxSubs
           /\ subsFile' = Append(ReadSubs, [orderId |-> id, email |-> em])
           /\ subsExists' = TRUE
           /\ IF emailTransporter
                THEN /\ Len(inflight) < limit
                     /\ inflight' = Append(inflight,
                          Suspended("subscribe", id, em, Undefined, Undefined, <<>>, 0))
                     /\ UNCHANGED res
                ELSE /\ res' = Reply(op, id, 200, SubscribeBody(EmailResult("unconfigured")))
                     /\ UNCHANGED inflight
           /\ UNCHANGED <<demoOrders, inherited, emailTransporter, env, geoCache, geoLookups, streams, page>>

Subscribe(orderId, email) == SubscribeUpTo(MaxInflight, orderId, email)

\* ------------------------------------------------------------------------
\* Advance
\* ------------------------------------------------------------------------
flow == <<"Processing", "Packed", "Shipped", "In Transit", "Out for Delivery", "Delivered">>

\* flow.indexOf(status): 0-based, -1 when absent
FlowIndexOf(status) ==
  IF \E i \in DOMAIN flow : flow[i] = status
    THEN (CHOOSE i \in DOMAIN flow : flow[i] = status) - 1
    ELSE -1

\* idx of the advance handler
AdvanceIdx(status) == IF FlowIndexOf(status) < 0 THEN 0 ELSE FlowIndexOf(status)

\* whether the handler takes the branch that assigns rec.status
Advances(status) == AdvanceIdx(status) < Len(flow) - 1

\* mutant: no upper limit on idx, so that flow[idx+1] is undefined past the end
AdvancedStatusPastEnd(status) ==
  IF AdvanceIdx(status) + 2 \in DOMAIN flow THEN flow[AdvanceIdx(status) + 2] ELSE Undefined

\* mutant: steps two stages at a time
AdvancedStatusSkips(status) ==
  IF AdvanceIdx(status) + 3 \in DOMAIN flow THEN flow[AdvanceIdx(status) + 3]
  ELSE IF Advances(status) THEN flow[Len(flow)] ELSE status

\* mutant: a delivered order can be advanced once more, to Returned
AdvancedStatusReturns(status) ==
  IF Advances(status) THEN flow[AdvanceIdx(status) + 2]
  ELSE IF status = "Delivered" THEN "Returned" ELSE status

\* rec.status after the handler
AdvancedStatus(status) == IF Advances(status) THEN flow[AdvanceIdx(status) + 2] ELSE status

\* mutant: one notification for each address
OrderSubsUnique(orderId) ==
  LET all == SelectSeq(ReadSubs, LAMBDA sub : sub.orderId = orderId)
      first == {i \in DOMAIN all : \A j \in 1..(i - 1) : all[j] # all[i]}
      RECURSIVE Pick(_)
      Pick(i) == IF i > Len(all) THEN <<>>
                 ELSE (IF i \in first THEN <<all[i]>> ELSE <<>>) \o Pick(i + 1)
  IN  Pick(1)

\* mutant: the subscribers of every order are notified
OrderSubsOfAllOrders(orderId) == ReadSubs

\* orderSubs of notifySubscribers
OrderSubs(orderId) == SelectSeq(ReadSubs, LAMBDA sub : sub.orderId = orderId)

\* mutant: the new status is written to every order
SetStatusOfAll(orders, id, status) ==
  [k \in DOMAIN orders |-> [orders[k] EXCEPT !.status = status]]

\* rec.status = flow[idx+1], on the record of the table
SetStatus(orders, id, status) == [orders EXCEPT ![id].status = status]

\* the body of the advance response, with the locals of the handler
AdvanceBody(rec, oldStatus, attempts, nsubs) ==
  [status |-> rec.status, progress |-> ProgressOf(rec.status),
   origin |-> rec.origin, dest |-> rec.dest,
   polyline |-> buildPolyline(rec.origin, rec.dest),
   oldStatus |-> oldStatus, attempts |-> attempts, nsubs |-> nsubs]

\* ids that advance requests carry
AdvanceIds == {Id1001Padded, Id9999}

\* POST /api/admin/advance/:orderId, up to its first await on the transport,
\* while fewer than limit handlers wait for it
AdvanceUpTo(limit, raw) ==
  LET id == Trim(raw)
      op == PostAdvance
      rec == LookupOrder(id)
      oldStatus == rec.status
      newStatus == AdvancedStatus(oldStatus)
      orderSubs == IF Advances(oldStatus) THEN OrderSubs(id) ELSE <<>>
  IN  IF ~rec.found
        THEN /\ res' = Fail(op, id, 404, "Order not found")
             /\ UNCHANGED <<demoOrders, inherited, subsExists, subsFile, emailTransporter, env, geoCache, geoLookups, inflight, streams, page>>
      ELSE /\ IF rec.own
                THEN /\ demoOrders' = SetStatus(demoOrders, id, newStatus)
                     /\ UNCHANGED inherited
                ELSE /\ inherited' = [inherited EXCEPT ![id] = newStatus]
                     /\ UNCHANGED demoOrders
           /\ IF orderSubs # <<>> /\ emailTransporter
                THEN /\ Len(inflight) < limit
                     /\ inflight' = Append(inflight,
                          Suspended("advance", id, <<>>, oldStatus, newStatus,
                                    orderSubs, Len(ReadSubs)))
                     /\ UNCHANGED res
                ELSE /\ res' = Reply(op, id, 200,
                          AdvanceBody(LookupIn(demoOrders', inherited', id), oldStatus,
                            [i \in DOMAIN orderSubs |->
                               Attempt(orderSubs[i].email, oldStatus, newStatus)],
                            Len(ReadSubs)))
                     /\ UNCHANGED inflight
           /\ UNCHANGED <<subsExists, subsFile, emailTransporter, env, geoCache, geoLookups, streams, page>>

Advance(raw) == AdvanceUpTo(MaxInflight, raw)

\* the race the k-th suspended handler awaits is settled; the handler runs on
\* to its next await or to its response
MailDone(k, outcome) ==
  LET r == inflight[k]
      attempts == Append(r.attempts,
                    Attempt(r.orderSubs[Len(r.attempts) + 1].email, r.oldStatus, r.newStatus))
  IN  /\ RaceSettles(outcome)
      /\ IF r.kind = "subscribe"
           THEN /\ res' = Reply(PostSubscribe, r.id, 200, SubscribeBody(EmailResult(outcome)))
                /\ inflight' = RemoveAt(inflight, k)
         ELSE IF Len(attempts) < Len(r.orderSubs)
           THEN /\ inflight' = [inflight EXCEPT ![k].attempts = attempts]
                /\ UNCHANGED res
         ELSE /\ res' = Reply(PostAdvance, r.id, 200,
                     AdvanceBody(LookupOrder(r.id), r.oldStatus, attempts, r.nsubs))
              /\ inflight' = RemoveAt(inflight, k)
      /\ UNCHANGED <<demoOrders, inherited, subsExists, subsFile, emailTransporter, env, geoCache, geoLookups, streams, page>>

\* ------------------------------------------------------------------------
\* Informational endpoints
\* ------------------------------------------------------------------------
\* the synthetic timeline of GET /api/orders/:orderId: label and days ago
Timeline(status) ==
  << [label |-> "Order Placed", daysAgo |-> 4],
     [label |-> "Packed", daysAgo |-> 3],
     [label |-> "Shipped", daysAgo |-> 2],
     [label |-> status, daysAgo |-> IF status = "Delivered" THEN 0 ELSE 1] >>

\* GET /api/orders/:orderId: { id, ...unified, timeline }
OrderDetail(raw) ==
  LET id == Trim(raw)
      rec == LookupOrder(id)
  IN  /\ res' = IF ~rec.found THEN Fail(GetOrderDetail, id, 404, "Order not found")
                ELSE Reply(GetOrderDetail, id, 200,
                       [unified |-> buildUnifiedResponse(rec),
                        timeline |-> Timeline(buildUnifiedResponse(rec).status)])
      /\ UNCHANGED <<demoOrders, inherited, subsExists, subsFile, emailTransporter, env, geoCache, geoLookups, inflight, streams, page>>

\* the days estimateETA adds to now
estimateETA(status) ==
  CASE status = "Processing" -> 5
    [] status = "Packed" -> 4
    [] status = "Shipped" -> 3
    [] status = "In Transit" -> 2
    [] status = "Out for Delivery" -> 0
    [] status = "Delivered" -> 0
    [] OTHER -> 3

etaNote(status) ==
  CASE status = "Out for Delivery" -> "Arriving today"
    [] status = "In Transit" -> "On the way"
    [] status = "Shipped" -> "Left origin facility"
    [] status = "Packed" -> "Preparing for shipment"
    [] status = "Processing" -> "Order confirmed"
    [] status = "Delivered" -> "Delivered"
    [] OTHER -> "Tracking in progress"

\* GET /api/eta/:orderId
Eta(raw) ==
  LET id == Trim(raw)
      rec == LookupOrder(id)
  IN  /\ res' = IF ~rec.found THEN Fail(GetEta, id, 404, "Order not found")
                ELSE Reply(GetEta, id, 200,
                       [status |-> rec.status, etaDays |-> estimateETA(rec.status),
                        note |-> etaNote(rec.status)])
      /\ UNCHANGED <<demoOrders, inherited, subsExists, subsFile, emailTransporter, env, geoCache, geoLookups, inflight, streams, page>>

\* bodies of POST /api/returns: orderId and type, <<>> when absent
ReturnBodies ==
  {[orderId |-> Id1001Padded, type |-> x] : x \in {<<>>, <<"R","e","p","l","a","c","e">>, <<"s","w","a","p">>}} \cup
  {[orderId |-> x, type |-> <<>>] : x \in {Id9999, <<>>}}

\* POST /api/returns { orderId, reason, type }
Returns(body) ==
  LET id == normalizeOrderId(body.orderId)
      type == ToLower(IF body.type = <<>> THEN <<"r","e","t","u","r","n">> ELSE body.type)
  IN  /\ res' = IF id = <<>> THEN Fail(PostReturns, id, 400, "orderId required")
                ELSE IF ~LookupOrder(id).found THEN Fail(PostReturns, id, 404, "Order not found")
                ELSE IF type \notin {<<"r","e","t","u","r","n">>, <<"r","e","p","l","a","c","e">>}
                  THEN Fail(PostReturns, id, 400, "type must be return or replace")
                ELSE Reply(PostReturns, id, 200, [status |-> "initiated", type |-> type])
      /\ UNCHANGED <<demoOrders, inherited, subsExists, subsFile, emailTransporter, env, geoCache, geoLookups, inflight, streams, page>>

\* GET /api/analytics: the number of orders, in all and for each status
Analytics ==
  /\ res' = Reply(GetAnalytics, <<>>, 200,
       [total |-> Cardinality(DOMAIN demoOrders),
        byStatus |-> [s \in {demoOrders[id].status : id \in DOMAIN demoOrders} |->
                        Cardinality({id \in DOMAIN demoOrders : demoOrders[id].status = s})]])
  /\ UNCHANGED <<demoOrders, inherited, subsExists, subsFile, emailTransporter, env, geoCache, geoLookups, inflight, streams, page>>

\* the status names as the characters String.prototype.includes sees
StatusText ==
  ("Processing" :> <<"P","r","o","c","e","s","s","i","n","g">>) @@ ("Packed" :> <<"P","a","c","k","e","d">>) @@
  ("Shipped" :> <<"S","h","i","p","p","e","d">>) @@ ("In Transit" :> <<"I","n"," ","T","r","a","n","s","i","t">>) @@
  ("Out for Delivery" :> <<"O","u","t"," ","f","o","r"," ","D","e","l","i","v","e","r","y">>) @@ ("Delivered" :> <<"D","e","l","i","v","e","r","e","d">>) @@
  ("Canceled" :> <<"C","a","n","c","e","l","e","d">>) @@ ("Returned" :> <<"R","e","t","u","r","n","e","d">>) @@
  (Undefined :> <<>>)

\* String.prototype.includes
Includes(s, part) == Test(Lit(part), s)

\* Object.entries(demoOrders): the keys that are array indices first, in
\* ascending order, then the others
OrderKeys == <<Id1001, Id1002, Id1003, Id1004, IdO3000034>>

\* query strings of GET /api/search: status and q, <<>> when absent
SearchQueries ==
  {[status |-> <<"S","h","i","p","p","e","d">>, q |-> <<"1","0","0">>], [status |-> <<>>, q |-> <<"o","_","i","d">>]}

\* GET /api/search?status=...&q=...
Search(query) ==
  LET statusQ == ToLower(Trim(query.status))
      q == ToLower(Trim(query.q))
      Matches(id) ==
        /\ statusQ # <<>> => Includes(ToLower(StatusText[demoOrders[id].status]), statusQ)
        /\ q # <<>> => Includes(ToLower(id), q)
      items == SelectSeq(OrderKeys, Matches)
  IN  /\ res' = Reply(GetSearch, <<>>, 200,
           [results |-> [i \in DOMAIN items |->
                           [id |-> items[i], tracking |-> getDemoTracking(LookupOrder(items[i]))]]])
      /\ UNCHANGED <<demoOrders, inherited, subsExists, subsFile, emailTransporter, env, geoCache, geoLookups, inflight, streams, page>>

\* demoCustomers: the orders of the demo customers
demoCustomers ==
  (<<"a","l","i","c","e","@","e","x","a","m","p","l","e",".","c","o","m">> :> <<Id1002, Id1004>>) @@
  (<<"b","o","b","@","e","x","a","m","p","l","e",".","c","o","m">> :> <<Id1001>>) @@
  (<<"c","a","r","a","@","e","x","a","m","p","l","e",".","c","o","m">> :> <<Id1003, IdO3000034>>)

\* [...new Set(ids)]: the first occurrence of each id, in order
RECURSIVE Unique(_)
Unique(ids) ==
  IF ids = <<>> THEN <<>>
  ELSE LET front == SubSeq(ids, 1, Len(ids) - 1)
           last == ids[Len(ids)]
       IN  IF \E i \in DOMAIN front : front[i] = last THEN Unique(front)
           ELSE Append(Unique(front), last)

\* e-mail addresses that GET /api/orders requests carry
OrdersEmails == {IdConstructor, <<" ","B","o","b","@","E","x","a","m","p","l","e",".","c","o","m">>, <<"a","@","x",".","i","o">>, <<>>}

\* GET /api/orders?email=...: the orders subscribed to under this address,
\* then the orders of the demo customer
Orders(rawEmail) ==
  LET email == ToLower(Trim(rawEmail))
      mine == SelectSeq(ReadSubs, LAMBDA s : ToLower(s.email) = email)
      subscribedIds == [i \in DOMAIN mine |-> mine[i].orderId]
      demoIds == IF email \in DOMAIN demoCustomers THEN demoCustomers[email] ELSE <<>>
      allIds == Unique(subscribedIds \o demoIds)
      Entry(id) ==
        IF LookupOrder(id).found
          THEN [id |-> id, status |-> LookupOrder(id).status,
                progress |-> ProgressOf(LookupOrder(id).status)]
          ELSE [id |-> id, status |-> "Unknown", progress |-> 0]
  IN  /\ res' = IF email = <<>> THEN Fail(GetOrders, email, 400, "email required")
                \* demoCustomers[email] is an inherited property, which the
                \* spread cannot iterate: the handler throws
                ELSE IF email \in InheritedKeys THEN Fail(GetOrders, email, 500, "TypeError")
                ELSE Reply(GetOrders, email, 200,
                       [orders |-> [i \in DOMAIN allIds |-> Entry(allIds[i])]])
      /\ UNCHANGED <<demoOrders, inherited, subsExists, subsFile, emailTransporter, env, geoCache, geoLookups, inflight, streams, page>>

\* ------------------------------------------------------------------------
\* Live status distribution
\* ------------------------------------------------------------------------
\* the event send() writes: { id, ...unified }
\* mutant: the snapshot is built from the record as it was at startup
SnapshotOfSeed(id) ==
  Reply(GetStream, id, 200, buildUnifiedResponse(LookupIn(SeedOrders, inherited, id)))

Snapshot(id) == Reply(GetStream, id, 200, buildUnifiedResponse(LookupOrder(id)))

\* GET /api/stream/:orderId: 404, or the first event and the interval timer
StreamOpen(raw) ==
  LET id == Trim(raw)
  IN  IF id = <<>> \/ ~LookupOrder(id).found
        THEN /\ res' = Fail(GetStream, id, 404, "Order not found")
             /\ UNCHANGED <<demoOrders, inherited, subsExists, subsFile, emailTransporter, env, geoCache, geoLookups, inflight, streams, page>>
        ELSE /\ Len(streams) < MaxStreams
             /\ streams' = Append(streams, [id |-> id, open |-> TRUE, timers |-> 1])
             /\ res' = Snapshot(id)
             /\ UNCHANGED <<demoOrders, inherited, subsExists, subsFile, emailTransporter, env, geoCache, geoLookups, inflight, page>>

\* the interval timer of the k-th stream fires: send()
StreamTick(k) ==
  /\ streams[k].timers > 0
  /\ res' = Snapshot(streams[k].id)
  /\ UNCHANGED <<demoOrders, inherited, subsExists, subsFile, emailTransporter, env, geoCache, geoLookups, inflight, streams, page>>

\* mutant: the close handler leaves the timer running
timerKept(conn) == conn.timers

\* clearInterval(timer): the timers the connection has afterwards
clearInterval(conn) == 0

\* the client of the k-th stream disconnects: the close handler runs.  The
\* list holds the connections that are open or have a timer: a closed
\* connection without timer leaves it
StreamClose(k) ==
  /\ streams[k].open
  /\ streams' = IF clearInterval(streams[k]) = 0 THEN RemoveAt(streams, k)
                ELSE [streams EXCEPT ![k] = [id |-> streams[k].id, open |-> FALSE,
                                             timers |-> clearInterval(streams[k])]]
  /\ UNCHANGED <<demoOrders, inherited, subsExists, subsFile, emailTransporter, env, geoCache, geoLookups, inflight, res, page>>

\* mutant: the tag is compared as it is written
mapAfterShipTagExact(tag) ==
  IF tag = <<"d","e","l","i","v","e","r","e","d">> THEN [status |-> "Delivered", progress |-> 100]
  ELSE [status |-> "Shipped", progress |-> 50]

\* ------------------------------------------------------------------------
\* Tracking provider
\* ------------------------------------------------------------------------
\* Array.prototype.includes on a list of strings
mapAfterShipTag(tag) ==
  LET t == ToLower(tag)
  IN  IF t \in {<<"p","e","n","d","i","n","g">>, <<"i","n","f","o","_","r","e","c","e","i","v","e","d">>} THEN [status |-> "Processing", progress |-> 15]
      ELSE IF t \in {<<"i","n","t","r","a","n","s","i","t">>, <<"i","n","_","t","r","a","n","s","i","t">>} THEN [status |-> "In Transit", progress |-> 70]
      ELSE IF t \in {<<"o","u","t","f","o","r","d","e","l","i","v","e","r","y">>, <<"o","u","t","_","f","o","r","_","d","e","l","i","v","e","r","y">>}
        THEN [status |-> "Out for Delivery", progress |-> 85]
      ELSE IF t \in {<<"d","e","l","i","v","e","r","e","d">>} THEN [status |-> "Delivered", progress |-> 100]
      ELSE IF t \in {<<"e","x","c","e","p","t","i","o","n">>, <<"f","a","i","l","e","d","_","a","t","t","e","m","p","t">>} THEN [status |-> "Exception", progress |-> 50]
      ELSE IF t \in {<<"e","x","p","i","r","e","d">>, <<"c","a","n","c","e","l","e","d">>} THEN [status |-> "Canceled", progress |-> 0]
      ELSE [status |-> "Shipped", progress |-> 50]

\* two checkpoints with coordinates, in units of 1e-4 degree
Checkpoints == << <<286139, 772090>>, <<190760, 728777>> >>

\* how one request to the tracking provider ends: the connection fails, the
\* provider answers with an error code, with no tracking, or with a body that
\* does not parse, or it answers with a tracking that has a tag and points
\* (pts: the checkpoint coordinates, or what geocoding made of the places)
NotCalled == [kind |-> "not called", tag |-> <<>>, pts |-> <<>>]
ProviderOutcomes ==
  {[kind |-> k, tag |-> <<>>, pts |-> <<>>] : k \in {"network", "meta", "missing", "garbled"}} \cup
  {[kind |-> "ok", tag |-> <<"D","e","l","i","v","e","r","e","d">>, pts |-> Checkpoints],
   [kind |-> "ok", tag |-> <<"A","v","a","i","l","a","b","l","e","F","o","r","P","i","c","k","u","p">>, pts |-> <<>>]}

\* the message of the error fetchAfterShipTracking rejects with
ProviderError(o) ==
  CASE o.kind = "network" -> "Tracking provider request failed"
    [] o.kind = "meta" -> "json.meta.message"
    [] o.kind = "missing" -> "Tracking not found"
    [] o.kind = "garbled" -> "Failed to parse provider response"

\* the value fetchAfterShipTracking resolves to
fetchAfterShipTracking(o) ==
  [status |-> mapAfterShipTag(o.tag).status,
   progress |-> mapAfterShipTag(o.tag).progress,
   polyline |-> o.pts]

\* how the carrier detection ends: the request fails, or it lists slugs
DetectOutcomes ==
  {[ok |-> FALSE, slugs |-> <<>>]} \cup
  {[ok |-> TRUE, slugs |-> s] : s \in {<<>>, <<<<"d","h","l">>>>, <<<<"d","h","l">>, <<"u","p","s">>>>}}

\* data.status is never empty and data.progress is always a number:
\* fetchAfterShipTracking takes both from mapAfterShipTag
unifyCarrierResult(carrierSlug, trackingNumber, data) ==
  [status |-> data.status,
   progress |-> data.progress,
   origin |-> IF data.polyline = <<>> THEN NoPoint ELSE data.polyline[1],
   dest |-> IF data.polyline = <<>> THEN NoPoint ELSE data.polyline[Len(data.polyline)],
   polyline |-> data.polyline,
   carrier |-> carrierSlug,
   tracking |-> trackingNumber]

\* query strings of GET /api/track-carrier
CarrierQueries ==
  {[carrier |-> <<"d","h","l">>, tracking |-> <<"1","2">>], [carrier |-> <<"d","h","l">>, tracking |-> <<>>]}

\* GET /api/track-carrier?carrier=slug&tracking=number
TrackCarrier(q, o) ==
  /\ res' =
       IF q.carrier = <<>> \/ q.tracking = <<>>
         THEN Fail(GetTrackCarrier, q.tracking, 400, "carrier and tracking are required")
       ELSE IF ~env.AFTERSHIP_API_KEY
         THEN Fail(GetTrackCarrier, q.tracking, 501, "Tracking provider not configured on server")
       ELSE After(1, 0,
         CASE o.kind = "network" ->
                Fail(GetTrackCarrier, q.tracking, 502, "Tracking provider request failed")
           [] o.kind = "meta" -> Fail(GetTrackCarrier, q.tracking, 400, "json.meta.message")
           [] o.kind = "missing" -> Fail(GetTrackCarrier, q.tracking, 404, "Tracking not found")
           [] o.kind = "garbled" ->
                Fail(GetTrackCarrier, q.tracking, 500, "Failed to parse provider response")
           [] o.kind = "ok" ->
                Reply(GetTrackCarrier, q.tracking, 200,
                  [status |-> mapAfterShipTag(o.tag).status,
                   progress |-> mapAfterShipTag(o.tag).progress,
                   polyline |-> IF Len(o.pts) >= 2 THEN o.pts ELSE NoPoint]))
  /\ UNCHANGED <<demoOrders, inherited, subsExists, subsFile, emailTransporter, env, geoCache, geoLookups, inflight, streams, page>>

\* the patterns of buildCarrierLinks; those with the i flag are written in
\* lower case and tested on the code in lower case
AlnumLower == DigitChars \cup LowerSet
AlnumUpper == DigitChars \cup UpperSet
AmazonRe == Cat(<<Lit(<<"t","b","a">>), Plus(Cls(AlnumLower))>>)
UpsRe == Cat(<<Lit(<<"1","z">>), Rep(Cls(AlnumLower), 16, 18)>>)
UspsRe == Rep(Cls(DigitChars), 20, 22)
FedExRe ==
  Alt(<<Rep(Cls(DigitChars), 12, 12), Rep(Cls(DigitChars), 14, 14), Rep(Cls(DigitChars), 15, 15),
        Rep(Cls(DigitChars), 20, 20), Rep(Cls(DigitChars), 22, 22)>>)
DhlRe == Rep(Cls(AlnumUpper), 10, 22)

\* a link: the carrier, and the code its URL carries (none for Ekart)
Link(carrier, code) == [carrier |-> carrier, code |-> code]

buildCarrierLinks(code) ==
  LET c == Trim(code)
  IN  (IF TestWhole(AmazonRe, ToLower(c)) THEN <<Link("Amazon Logistics", c)>> ELSE <<>>) \o
      (IF TestWhole(UpsRe, ToLower(c)) THEN <<Link("UPS", c)>> ELSE <<>>) \o
      (IF TestWhole(UspsRe, c) THEN <<Link("USPS", c)>> ELSE <<>>) \o
      (IF TestWhole(FedExRe, c) THEN <<Link("FedEx", c)>> ELSE <<>>) \o
      (IF TestWhole(DhlRe, c) THEN <<Link("DHL", c)>> ELSE <<>>) \o
      <<Link("Delhivery", c), Link("Blue Dart", c), Link("XpressBees", c), Link("DTDC", c),
        Link("Ecom Express", c), Link("Ekart (Flipkart)", <<>>)>>

\* the carriers whose pattern buildCarrierLinks tests
PatternCarriers == {"Amazon Logistics", "UPS", "USPS", "FedEx", "DHL"}

\* queries of POST /api/track-any
AnyQueries ==
  {Id1001Padded, <<>>, <<"h","e","l","l","o">>, <<"T","B","A","1","2">>, <<"d","h","l",":","1","2">>, <<"d","h","l",":">>, <<"1","2","3","4","5","6","7","8","9","0","1","2">>}

\* the links of each query, computed once
LinksOf == [query \in AnyQueries |-> buildCarrierLinks(Trim(query))]

\* the index of the first slug whose lookup succeeded, 0 when none did
FirstOk(slugs, fetches) ==
  LET oks == {i \in DOMAIN slugs : fetches[i].kind = "ok"}
  IN  IF oks = {} THEN 0 ELSE SetMin(oks)

\* mutant: a failed carrier-prefixed lookup falls through to the detection
PrefixedFailureDetects(raw, o) ==
  After(2, 0, Fail(PostTrackAny, raw, 400, "Detect carriers failed"))

\* the catch of the carrier-prefixed lookup: 404 with the error's message
PrefixedFailure(raw, o) == After(1, 0, Fail(PostTrackAny, raw, 404, ProviderError(o)))

\* POST /api/track-any { query }: det is how the detection ends and
\* fetches[i] how the i-th lookup ends, if the handler gets that far
TrackAny(query, det, fetches) ==
  LET raw == Trim(query)
      colon == IndexOf(raw, ":")
      carrier == ToLower(Trim(Slice(raw, 0, colon)))
      tracking == Trim(Slice(raw, colon + 1, Len(raw)))
      hit == FirstOk(det.slugs, fetches)
  IN  /\ res' =
           IF raw = <<>> THEN Fail(PostTrackAny, raw, 400, "query required")
           ELSE IF LookupOrder(raw).found
             THEN Reply(PostTrackAny, raw, 200, buildUnifiedResponse(LookupOrder(raw)))
           ELSE IF ~env.AFTERSHIP_API_KEY
             THEN IF Len(LinksOf[query]) > 0
                    THEN Reply(PostTrackAny, raw, 200,
                           [status |-> "Open in carrier site", progress |-> 0,
                            links |-> LinksOf[query],
                            note |-> "Provider API not configured; use an official tracking link below."])
                    ELSE Fail(PostTrackAny, raw, 404,
                           "No provider configured and no known link format for this code")
           ELSE IF colon > 0
             THEN IF carrier = <<>> \/ tracking = <<>>
                    THEN Fail(PostTrackAny, raw, 400, "Invalid carrier:tracking format")
                  ELSE IF fetches[1].kind = "ok"
                    THEN After(1, 0, Reply(PostTrackAny, raw, 200,
                           unifyCarrierResult(carrier, tracking, fetchAfterShipTracking(fetches[1]))))
                  ELSE PrefixedFailure(raw, fetches[1])
           ELSE IF ~det.ok THEN After(1, 0, Fail(PostTrackAny, raw, 400, "Detect carriers failed"))
           ELSE IF hit = 0
             THEN After(1 + Len(det.slugs), 0,
                    Fail(PostTrackAny, raw, 404, "No matching carrier found for this tracking number"))
           ELSE After(1 + hit, 0, Reply(PostTrackAny, raw, 200,
                  unifyCarrierResult(det.slugs[hit], raw, fetchAfterShipTracking(fetches[hit]))))
      /\ UNCHANGED <<demoOrders, inherited, subsExists, subsFile, emailTransporter, env, geoCache, geoLookups, inflight, streams, page>>

\* ------------------------------------------------------------------------
\* Chat
\* ------------------------------------------------------------------------
\* \s*
Spaces == Star(Cls(SpaceChars))
\* the character U+2019, the right single quotation mark
RightQuote == "U+2019"
\* ['U+2019]?
Apostrophe == Opt(Cls({"'", RightQuote}))
\* .*
Anything == Star(AnyChar)
NotWork == Cat(<<Lit(<<"n","o","t">>), Spaces, Lit(<<"w","o","r","k">>)>>)
DoesntWork == Cat(<<Lit(<<"d","o","e","s","n">>), Apostrophe, Lit(<<"t">>), Spaces, Lit(<<"w","o","r","k">>)>>)
Cant == Cat(<<Lit(<<"c","a","n">>), Apostrophe, Lit(<<"t">>)>>)

\* the pattern of issueIntent
IssueRe ==
  Alt(<<Lit(<<"i","s","s","u","e">>), Lit(<<"p","r","o","b","l","e","m">>), Lit(<<"s","u","p","p","o","r","t">>), Lit(<<"h","e","l","p">>), Lit(<<"c","o","m","p","l","a","i","n">>), Lit(<<"c","o","m","p","l","a","i","n","t">>), Lit(<<"d","a","m","a","g">>), Lit(<<"d","a","m","a","g","e">>), Lit(<<"b","r","o","k","e","n">>), Lit(<<"d","e","f","e","c","t">>), Lit(<<"f","a","u","l","t","y">>), Lit(<<"w","r","o","n","g">>), Lit(<<"m","i","s","s","i","n","g">>), Lit(<<"l","o","s","t">>), Lit(<<"l","a","t","e">>), Lit(<<"d","e","l","a","y">>), Lit(<<"r","e","f","u","n","d">>), Lit(<<"r","e","t","u","r","n">>), Lit(<<"r","e","p","l","a","c","e">>), Lit(<<"e","x","c","h","a","n","g","e">>), Lit(<<"c","a","n","c","e","l">>), NotWork, DoesntWork, Lit(<<"c","a","n","n","o","t">>), Cant, Lit(<<"e","r","r","o","r">>), Lit(<<"f","a","i","l","e","d">>), Lit(<<"f","a","i","l">>), Lit(<<"s","t","u","c","k">>)>>)

\* the pattern of complaint: that of issueIntent without help
ComplaintRe ==
  Alt(<<Lit(<<"i","s","s","u","e">>), Lit(<<"p","r","o","b","l","e","m">>), Lit(<<"s","u","p","p","o","r","t">>), Lit(<<"c","o","m","p","l","a","i","n">>), Lit(<<"c","o","m","p","l","a","i","n","t">>), Lit(<<"d","a","m","a","g">>), Lit(<<"d","a","m","a","g","e">>), Lit(<<"b","r","o","k","e","n">>), Lit(<<"d","e","f","e","c","t">>), Lit(<<"f","a","u","l","t","y">>), Lit(<<"w","r","o","n","g">>), Lit(<<"m","i","s","s","i","n","g">>), Lit(<<"l","o","s","t">>), Lit(<<"l","a","t","e">>), Lit(<<"d","e","l","a","y">>), Lit(<<"r","e","f","u","n","d">>), Lit(<<"r","e","t","u","r","n">>), Lit(<<"r","e","p","l","a","c","e">>), Lit(<<"e","x","c","h","a","n","g","e">>), Lit(<<"c","a","n","c","e","l">>), NotWork, DoesntWork, Lit(<<"c","a","n","n","o","t">>), Cant, Lit(<<"e","r","r","o","r">>), Lit(<<"f","a","i","l","e","d">>), Lit(<<"f","a","i","l">>), Lit(<<"s","t","u","c","k">>)>>)

ReturnWords == Alt(<<Lit(<<"r","e","t","u","r","n">>), Lit(<<"r","e","f","u","n","d">>), Lit(<<"r","e","p","l","a","c","e">>), Lit(<<"e","x","c","h","a","n","g","e">>)>>)

\* the patterns of faqs, in order
FaqRes ==
  << Alt(<<Lit(<<"h","e","l","l","o">>), Lit(<<"h","i">>), Lit(<<"h","e","y">>), Lit(<<"n","a","m","a","s","t","e">>),
           Cat(<<Lit(<<"g","o","o","d">>), Spaces,
                 Alt(<<Lit(<<"m","o","r","n","i","n","g">>), Lit(<<"a","f","t","e","r","n","o","o","n">>), Lit(<<"e","v","e","n","i","n","g">>)>>)>>)>>),
     Alt(<<Lit(<<"t","h","a","n","k","s">>), Cat(<<Lit(<<"t","h","a","n","k">>), Spaces, Lit(<<"y","o","u">>)>>), Lit(<<"t","y","s","m">>), Lit(<<"t","h","x">>)>>),
     Alt(<<Cat(<<ReturnWords, Anything, Lit(<<"p","o","l","i","c","y">>)>>),
           Cat(<<Lit(<<"p","o","l","i","c","y">>), Anything, ReturnWords>>),
           Cat(<<Lit(<<"r","e","t","u","r","n">>), Spaces, Lit(<<"p","o","l","i","c","y">>)>>),
           Cat(<<Lit(<<"r","e","f","u","n","d">>), Spaces, Lit(<<"p","o","l","i","c","y">>)>>)>>),
     Alt(<<Cat(<<Alt(<<Cat(<<Lit(<<"h","o","w">>), Spaces, Lit(<<"d","o">>), Spaces, Lit(<<"i">>)>>),
                       Cat(<<Lit(<<"c","a","n">>), Spaces, Lit(<<"i">>)>>)>>),
                 Anything, Lit(<<"c","a","n","c","e","l">>)>>),
           Cat(<<Lit(<<"c","a","n","c","e","l">>), Opt(Lit(<<"l","a","t","i","o","n">>)), Spaces,
                 Opt(Alt(<<Lit(<<"p","o","l","i","c","y">>), Lit(<<"o","r","d","e","r">>)>>))>>)>>),
     Alt(<<Cat(<<Alt(<<Lit(<<"w","h","e","n">>), Cat(<<Lit(<<"h","o","w">>), Spaces, Lit(<<"l","o","n","g">>)>>)>>), Anything,
                 Alt(<<Lit(<<"d","e","l","i","v","e","r">>), Lit(<<"a","r","r","i","v","a","l">>), Lit(<<"a","r","r","i","v","e">>), Lit(<<"s","h","i","p","p","i","n","g">>)>>)>>),
           Cat(<<Lit(<<"d","e","l","i","v","e","r","y">>), Spaces, Lit(<<"t","i","m","e">>)>>),
           Cat(<<Lit(<<"s","h","i","p","p","i","n","g">>), Spaces, Lit(<<"t","i","m","e">>)>>),
           Lit(<<"e","t","a">>)>>),
     Alt(<<Cat(<<Alt(<<Lit(<<"c","o","n","t","a","c","t">>), Lit(<<"r","e","a","c","h">>), Lit(<<"e","m","a","i","l">>), Lit(<<"c","a","l","l">>)>>),
                 Anything, Lit(<<"s","u","p","p","o","r","t">>)>>),
           Cat(<<Lit(<<"c","u","s","t","o","m","e","r">>), Spaces, Lit(<<"s","u","p","p","o","r","t">>)>>)>>),
     Alt(<<Lit(<<"p","a","y","m","e","n","t">>), Lit(<<"c","o","d">>),
           Cat(<<Lit(<<"c","a","s","h">>), Spaces, Lit(<<"o","n">>), Spaces, Lit(<<"d","e","l","i","v","e","r","y">>)>>),
           Lit(<<"u","p","i">>), Lit(<<"c","a","r","d">>)>>) >>

\* /^(help|what can you do\??|how (do|can) i\b|features\b)/
HelpRe ==
  Alt(<<Lit(<<"h","e","l","p">>),
        Cat(<<Lit(<<"w","h","a","t"," ","c","a","n"," ","y","o","u"," ","d","o">>), Opt(Lit(<<"?">>))>>),
        Cat(<<Lit(<<"h","o","w"," ">>), Alt(<<Lit(<<"d","o">>), Lit(<<"c","a","n">>)>>), Lit(<<" ","i">>), WordBoundary>>),
        Cat(<<Lit(<<"f","e","a","t","u","r","e","s">>), WordBoundary>>)>>)

\* the words the order-id extraction drops
StopWords ==
  {<<"t","r","a","c","k">>, <<"t","r","a","c","k","i","n","g">>, <<"o","r","d","e","r">>, <<"s","t","a","t","u","s">>, <<"w","h","e","r","e">>, <<"i","s">>, <<"f","o","r">>, <<"m","y">>,
   <<"p","l","e","a","s","e">>, <<"t","h","e">>, <<"a","n","d">>}

\* what the chat handlers read from a message: the trimmed text, the intents
\* the patterns find in it, the carrier:tracking split and the tokens
Classify(message) ==
  LET msg == Trim(message)
      lower == ToLower(msg)
      hits == {k \in DOMAIN FaqRes : Test(FaqRes[k], lower)}
      colonIdx == IndexOf(msg, ":")
      tokens == AllMatches(TokenRe, msg)
      candidates == SelectSeq(tokens, LAMBDA tok : ToLower(tok) \notin StopWords)
  IN  [msg |-> msg,
       issueIntent |-> Test(IssueRe, lower),
       complaint |-> Test(ComplaintRe, lower),
       faq |-> IF hits = {} THEN 0 ELSE SetMin(hits),
       help |-> TestPrefix(HelpRe, lower),
       colonIdx |-> colonIdx,
       carrier |-> IF colonIdx > 0 THEN ToLower(Trim(Slice(msg, 0, colonIdx))) ELSE <<>>,
       tracking |-> IF colonIdx > 0 THEN Trim(Slice(msg, colonIdx + 1, Len(msg))) ELSE <<>>,
       token |-> IF tokens = <<>> THEN <<>> ELSE tokens[1],
       candidate |-> IF candidates = <<>> THEN <<>> ELSE candidates[1]]

\* messages of the chat requests
ChatMessages ==
  {<<"d","h","l",":","1","2">>, <<"d","e","l","h","i","v","e","r","y",":","1","2">>, <<"t","r","a","c","k"," ","1","0","0","1">>, <<" ","H","i">>, <<"1","0","0","1"," ","b","r","o","k","e","n">>, <<"f","e","a","t","u","r","e","s">>,
   <<"h","e","l","p">>, <<"o","k">>, <<"9","9","9","9">>, <<" ">>}

\* what the handlers read from each message, computed once
ChatFacts == [message \in ChatMessages |-> Classify(message)]

\* how one request to the AI provider ends: it fails, or it yields a text
AiOutcomes == {[ok |-> FALSE, text |-> ""], [ok |-> TRUE, text |-> ""], [ok |-> TRUE, text |-> "text"]}

\* data.status || 'In Transit'
StatusOr(status) == IF status = Undefined THEN "In Transit" ELSE status

\* the AI-first block up to the AI request: the structured data it gathered,
\* its context lines, and the tracking provider requests it made
AiFirst(f, fetch) ==
  LET carried == f.colonIdx > 0 /\ f.carrier # <<>> /\ f.tracking # <<>> /\ env.AFTERSHIP_API_KEY
      known == f.token # <<>> /\ LookupOrder(f.token).found
  IN  [data |-> IF known THEN getDemoTracking(LookupOrder(f.token))
                ELSE IF carried /\ fetch.kind = "ok" THEN fetchAfterShipTracking(fetch)
                ELSE NoBody,
       ctx |-> (IF ~carried THEN <<>>
                ELSE IF fetch.kind = "ok" THEN <<"Carrier">> ELSE <<"Carrier lookup failed">>) \o
               (IF known THEN <<"Order">> ELSE <<>>),
       carrierCalls |-> IF carried THEN 1 ELSE 0]

\* the rule-based part of POST /api/chat, entered after aiCalls requests to
\* the AI provider and carrierCalls to the tracking provider; fetch is how
\* its own tracking lookup ends and ai how its own AI request ends; aiKey
\* is whether process.env.OPENAI_API_KEY is set
RuleBasedWith(aiKey, f, fetch, ai, carrierCalls, aiCalls) ==
  IF f.issueIntent
    THEN IF f.token # <<>> /\ LookupOrder(f.token).found
           THEN After(carrierCalls, aiCalls, Reply(PostChat, f.msg, 200,
                  [route |-> "issue", orderId |-> f.token,
                   reply |-> <<"issue", f.token, StatusOr(LookupOrder(f.token).status)>>,
                   data |-> getDemoTracking(LookupOrder(f.token))]))
           ELSE After(carrierCalls, aiCalls, Reply(PostChat, f.msg, 200,
                  [route |-> "issue-noid", reply |-> <<"issue-noid">>]))
  ELSE IF f.faq # 0
    THEN After(carrierCalls, aiCalls, Reply(PostChat, f.msg, 200,
           [route |-> "faq", reply |-> <<"faq", f.faq>>]))
  ELSE IF f.help
    THEN After(carrierCalls, aiCalls, Reply(PostChat, f.msg, 200,
           [route |-> "help", reply |-> <<"help">>]))
  ELSE IF f.colonIdx > 0 /\ f.carrier # <<>> /\ f.tracking # <<>>
    THEN IF ~env.AFTERSHIP_API_KEY
           THEN After(carrierCalls, aiCalls, Reply(PostChat, f.msg, 200,
                  [route |-> "carrier-unconfigured",
                   reply |-> <<"Carrier tracking is not configured on the server yet.">>]))
         ELSE IF fetch.kind = "ok"
           THEN After(carrierCalls + 1, aiCalls, Reply(PostChat, f.msg, 200,
                  [route |-> "carrier",
                   reply |-> <<"carrier", fetchAfterShipTracking(fetch).status,
                               fetchAfterShipTracking(fetch).progress>>,
                   data |-> fetchAfterShipTracking(fetch)]))
         ELSE After(carrierCalls + 1, aiCalls, Reply(PostChat, f.msg, 200,
                [route |-> "carrier-error", reply |-> <<ProviderError(fetch)>>]))
  ELSE IF f.candidate # <<>>
    THEN IF ~LookupOrder(f.candidate).found
           THEN After(carrierCalls, aiCalls, Reply(PostChat, f.msg, 200,
                  [route |-> "order-not-found", orderId |-> f.candidate,
                   reply |-> <<"order-not-found", f.candidate>>]))
         ELSE IF f.complaint
           THEN After(carrierCalls, aiCalls, Reply(PostChat, f.msg, 200,
                  [route |-> "order-issue", orderId |-> f.candidate,
                   reply |-> <<"issue", f.candidate, StatusOr(LookupOrder(f.candidate).status)>>,
                   data |-> getDemoTracking(LookupOrder(f.candidate))]))
         ELSE After(carrierCalls, aiCalls, Reply(PostChat, f.msg, 200,
                [route |-> "order-status", orderId |-> f.candidate,
                 reply |-> <<"order-status", f.candidate, StatusOr(LookupOrder(f.candidate).status),
                             ProgressOf(LookupOrder(f.candidate).status)>>,
                 data |-> getDemoTracking(LookupOrder(f.candidate))]))
  ELSE IF aiKey /\ ai.ok
    THEN After(carrierCalls, aiCalls + 1, Reply(PostChat, f.msg, 200,
           [route |-> "ai", reply |-> <<"ai", ai.text>>]))
  ELSE After(carrierCalls, aiCalls + (IF aiKey THEN 1 ELSE 0),
         Reply(PostChat, f.msg, 200, [route |-> "default", reply |-> <<"default">>]))

RuleBased(f, fetch, ai, carrierCalls, aiCalls) ==
  RuleBasedWith(env.OPENAI_API_KEY, f, fetch, ai, carrierCalls, aiCalls)

\* reply || 'Okay.'
TextOr(text) == IF text = "" THEN "Okay." ELSE text

\* POST /api/chat { message }: fetch1 and ai1 are how the requests of the
\* AI-first block end, fetch2 and ai2 how those of the rule-based part end
Chat(message, fetch1, ai1, fetch2, ai2) ==
  LET f == ChatFacts[message]
      first == AiFirst(f, fetch1)
  IN  /\ res' =
           IF f.msg = <<>> THEN Fail(PostChat, f.msg, 400, "message is required")
           ELSE IF env.OPENAI_API_KEY /\ ai1.ok
             THEN After(first.carrierCalls, 1, Reply(PostChat, f.msg, 200,
                    [route |-> "ai-first", reply |-> <<"ai", TextOr(ai1.text)>>,
                     data |-> first.data, ctx |-> first.ctx]))
           ELSE IF env.OPENAI_API_KEY
             THEN RuleBased(f, fetch2, ai2, first.carrierCalls, 1)
           ELSE RuleBased(f, fetch2, ai2, 0, 0)
      /\ UNCHANGED <<demoOrders, inherited, subsExists, subsFile, emailTransporter, env, geoCache, geoLookups, inflight, streams, page>>

\* POST /api/chat-ai { message }
ChatAI(message, fetch, ai) ==
  LET f == ChatFacts[message]
      first == AiFirst(f, fetch)
  IN  /\ res' =
           IF f.msg = <<>> THEN Fail(PostChatAI, f.msg, 400, "message is required")
           ELSE IF env.OPENAI_API_KEY /\ ai.ok
             THEN After(first.carrierCalls, 1, Reply(PostChatAI, f.msg, 200,
                    [route |-> "ai-first", reply |-> <<"ai", TextOr(ai.text)>>,
                     data |-> first.data, ctx |-> first.ctx]))
           ELSE IF env.OPENAI_API_KEY
             THEN After(first.carrierCalls, 1, Reply(PostChatAI, f.msg, 200,
                    [route |-> "ai-first-failed",
                     reply |-> <<"I had trouble contacting AI.">>, error |-> "e.message"]))
           ELSE Fail(PostChatAI, f.msg, 500, "OPENAI_API_KEY not set")
      /\ UNCHANGED <<demoOrders, inherited, subsExists, subsFile, emailTransporter, env, geoCache, geoLookups, inflight, streams, page>>

Next ==
  \/ \E q \in TrackQueries : TrackGet(q)
  \/ \E raw \in RawIds \ {<<>>} : TrackParam(raw)
  \/ \E body \in TrackBodies : TrackPost(body)
  \/ \E orderId \in RawIds, email \in RawEmails : Subscribe(orderId, email)
  \/ \E raw \in AdvanceIds : Advance(raw)
  \/ \E k \in DOMAIN inflight, outcome \in MailOutcomes : MailDone(k, outcome)

Spec == Init /\ [][Next]_vars

\* the subscribe and advance handlers side by side: up to MaxWaiting of them
\* wait for the mail transport while others arrive
NextWaiting ==
  \/ \E orderId \in RawIds, email \in RawEmails : SubscribeUpTo(MaxWaiting, orderId, email)
  \/ \E raw \in AdvanceIds : AdvanceUpTo(MaxWaiting, raw)
  \/ \E k \in DOMAIN inflight, outcome \in MailOutcomes : MailDone(k, outcome)

SpecWaiting == Init /\ [][NextWaiting]_vars

\* the handlers that wait for the mail transport, and the settling of
\* their sends
NextMail ==
  \/ \E orderId \in RawIds, email \in RawEmails : Subscribe(orderId, email)
  \/ \E raw \in AdvanceIds : Advance(raw)
  \/ \E k \in DOMAIN inflight, outcome \in MailOutcomes : MailDone(k, outcome)

\* the timer of each race fires when the send has not settled before it, so
\* no handler stays suspended for ever
SpecMail ==
  /\ Init /\ [][NextMail]_vars
  /\ \A k \in 1..MaxInflight :
       WF_vars(k \in DOMAIN inflight /\ \E outcome \in MailOutcomes : MailDone(k, outcome))

\* the server started on a table in which order 1001 has any status of the
\* status table: the advance handler applied to every status
InitSeeded ==
  /\ \E s \in StatusSet : demoOrders = [SeedOrders EXCEPT ![Id1001].status = s]
  /\ inherited = [k \in InheritedKeys |-> Undefined]
  /\ subsExists = FALSE
  /\ subsFile = <<>>
  /\ emailTransporter \in BOOLEAN
  /\ env = [AFTERSHIP_API_KEY |-> FALSE, OPENAI_API_KEY |-> FALSE]
  /\ geoCache = EmptyCache
  /\ geoLookups = <<>>
  /\ inflight = <<>>
  /\ streams = <<>>
  /\ res = NoResponse
  /\ page = ClosedPage

SpecSeeded == InitSeeded /\ [][Next]_vars

\* ------------------------------------------------------------------------
\* The whole server: every endpoint, with either provider key set or not,
\* and no mail transporter (sendEmailNotification answers at once)
\* ------------------------------------------------------------------------
InitAll ==
  /\ demoOrders = SeedOrders
  /\ inherited = [k \in InheritedKeys |-> Undefined]
  /\ subsExists = FALSE
  /\ subsFile = <<>>
  /\ emailTransporter = FALSE
  /\ env \in [{"AFTERSHIP_API_KEY", "OPENAI_API_KEY"} -> BOOLEAN]
  /\ geoCache = EmptyCache
  /\ geoLookups = <<>>
  /\ inflight = <<>>
  /\ streams = <<>>
  /\ res = NoResponse
  /\ page = ClosedPage

\* the ways a request to a provider can end, where the handler can make one
NoAi == [ok |-> FALSE, text |-> ""]
AiChoices == IF env.OPENAI_API_KEY THEN AiOutcomes ELSE {NoAi}
CarrierChoices == IF env.AFTERSHIP_API_KEY THEN ProviderOutcomes ELSE {NotCalled}
\* fetchAfterShipTracking rejects alike however the request failed, but for
\* the message: one way of failing stands for the four
FetchChoices ==
  IF env.AFTERSHIP_API_KEY THEN {o \in ProviderOutcomes : o.kind \in {"ok", "missing"}}
  ELSE {NotCalled}
DetectChoices == IF env.AFTERSHIP_API_KEY THEN DetectOutcomes ELSE {[ok |-> FALSE, slugs |-> <<>>]}
FetchFor(message) == IF ChatFacts[message].colonIdx > 0 THEN FetchChoices ELSE {NotCalled}
FetchSeqs(det) == [1..(IF Len(det.slugs) = 0 THEN 1 ELSE Len(det.slugs)) -> FetchChoices]

\* ids that the requests of the whole server carry
AllIds == {Id1003, Id9999}

NextAll ==
  \/ \E q \in TrackQueries : TrackGet(q)
  \/ \E raw \in RawIds \ {<<>>} : TrackParam(raw)
  \/ \E body \in TrackBodies : TrackPost(body)
  \/ \E orderId \in AllIds, email \in RawEmails : Subscribe(orderId, email)
  \/ \E raw \in AllIds : Advance(raw)
  \/ \E raw \in AllIds : OrderDetail(raw)
  \/ \E raw \in AllIds : Eta(raw)
  \/ \E body \in ReturnBodies : Returns(body)
  \/ Analytics
  \/ \E query \in SearchQueries : Search(query)
  \/ \E rawEmail \in OrdersEmails : Orders(rawEmail)
  \/ \E raw \in AllIds : StreamOpen(raw)
  \/ \E k \in DOMAIN streams : StreamTick(k)
  \/ \E k \in DOMAIN streams : StreamClose(k)
  \/ \E q \in CarrierQueries, o \in CarrierChoices : TrackCarrier(q, o)
  \/ \E query \in AnyQueries, det \in DetectChoices :
       \E fetches \in FetchSeqs(det) : TrackAny(query, det, fetches)
  \/ \E message \in ChatMessages, ai1 \in AiChoices :
       \E fetch1 \in FetchFor(message),
          ai2 \in (IF ai1.ok THEN {NoAi} ELSE AiChoices),
          fetch2 \in (IF ai1.ok THEN {NotCalled} ELSE FetchFor(message)) :
         Chat(message, fetch1, ai1, fetch2, ai2)
  \/ \E message \in ChatMessages, ai \in AiChoices :
       \E fetch \in FetchFor(message) : ChatAI(message, fetch, ai)

SpecAll == InitAll /\ [][NextAll]_vars

\* ------------------------------------------------------------------------
\* Properties
\* ------------------------------------------------------------------------
\* the stage of a status in the advance sequence, 0 for one outside it
StageOf(status) == FlowIndexOf(status) + 1

\* an advance request for id is taken up in this step: it is answered at once
\* or its handler is suspended on the mail transport
AdvanceArrives(id) ==
  \/ /\ inflight' = inflight
     /\ res' # res
     /\ res'.op = PostAdvance /\ res'.code = 200 /\ res'.id = id
  \/ /\ Len(inflight') = Len(inflight) + 1
     /\ inflight'[Len(inflight')].kind = "advance"
     /\ inflight'[Len(inflight')].id = id

\* a subscribe request that passed validation is taken up in this step
SubscribeArrives(id, em) ==
  \/ /\ inflight' = inflight
     /\ res'.op = PostSubscribe /\ res'.code = 200 /\ res'.id = id
     /\ (res' # res \/ subsFile' # subsFile)
     /\ em = (IF subsFile' # <<>> THEN subsFile'[Len(subsFile')].email ELSE <<>>)
  \/ /\ Len(inflight') = Len(inflight) + 1
     /\ inflight'[Len(inflight')].kind = "subscribe"
     /\ inflight'[Len(inflight')].id = id
     /\ inflight'[Len(inflight')].email = em

\* C1: whatever requests were served, each of the three track endpoints
\* answers every id of the order table with 200, a status of the fixed status
\* set and a progress between 0 and 100.
C1_TrackStatusAndProgress ==
  \A id \in DOMAIN demoOrders : \A op \in TrackOps :
    LET r == TrackReply(op, id)
    IN  /\ r.code = 200
        /\ r.body.status \in StatusSet
        /\ r.body.progress \in 0..100

\* the order 1001 was advanced to the end and a track endpoint answered for it
C1_Witness ==
  /\ res.op \in TrackOps /\ res.code = 200 /\ res.id = Id1001
  /\ res.body.status = "Delivered" /\ res.body.progress = 100

\* C2: an advance request that finds the order Out for Delivery sets it to
\* Delivered, one that finds it Delivered leaves it Delivered, and every
\* response to such a request is a 200 that carries status Delivered and
\* progress 100.
C2_AdvanceAtTheEnd ==
  [][/\ \A id \in DOMAIN demoOrders :
          /\ demoOrders[id].status \in {"Out for Delivery", "Delivered"}
          /\ AdvanceArrives(id)
          => demoOrders'[id].status = "Delivered"
     /\ /\ res' # res
        /\ res'.op = PostAdvance
        /\ res'.id \in DOMAIN demoOrders
        => /\ res'.code = 200
           /\ res'.body.oldStatus \in {"Out for Delivery", "Delivered"}
              => /\ res'.body.status = "Delivered"
                 /\ res'.body.progress = 100
                 /\ demoOrders'[res'.id].status = "Delivered"]_vars

\* an advance request found order 1001 Delivered and answered 200, Delivered
C2_Witness ==
  /\ res.op = PostAdvance /\ res.code = 200 /\ res.id = Id1001
  /\ res.body.oldStatus = "Delivered" /\ res.body.status = "Delivered"

\* C3, as claimed: every change of a status goes to the following stage, and
\* every advance request moves its order by exactly one stage.
C3_EveryAdvanceMovesOneStage ==
  [][\A id \in DOMAIN demoOrders :
       /\ demoOrders'[id].status # demoOrders[id].status
          => /\ StageOf(demoOrders[id].status) >= 1
             /\ StageOf(demoOrders'[id].status) = StageOf(demoOrders[id].status) + 1
       /\ AdvanceArrives(id)
          => StageOf(demoOrders'[id].status) = StageOf(demoOrders[id].status) + 1]_vars

\* C3, amended: every change of a status goes from one stage to the following
\* stage, and an advance request moves its order by exactly one stage unless
\* the order is Delivered, which it leaves Delivered.
C3_AdvanceMovesOneStageUntilDelivered ==
  [][\A id \in DOMAIN demoOrders :
       /\ demoOrders'[id].status # demoOrders[id].status
          => /\ StageOf(demoOrders[id].status) >= 1
             /\ StageOf(demoOrders'[id].status) = StageOf(demoOrders[id].status) + 1
       /\ AdvanceArrives(id)
          => IF demoOrders[id].status = "Delivered"
               THEN demoOrders'[id].status = "Delivered"
               ELSE StageOf(demoOrders'[id].status) = StageOf(demoOrders[id].status) + 1]_vars

\* advance requests took order 1001 from Processing to In Transit
C3_Witness ==
  /\ res.op = PostAdvance /\ res.code = 200 /\ res.id = Id1001
  /\ res.body.oldStatus = "Shipped" /\ res.body.status = "In Transit"
  /\ demoOrders[Id1001].status = "In Transit"

\* C6: no order of the seeded table ever has the status Canceled or Returned.
C6_NeverCanceledOrReturned ==
  \A id \in DOMAIN demoOrders : demoOrders[id].status \notin {"Canceled", "Returned"}

\* advance requests took order 1001 through the whole sequence
C6_Witness ==
  /\ res.op = PostAdvance /\ res.code = 200 /\ res.id = Id1001
  /\ res.body.oldStatus = "Out for Delivery"
  /\ demoOrders[Id1001].status = "Delivered"

C7_MissingAndUnknownIds ==
  [][/\ res'.op \in TrackOps /\ res'.id = <<>>
        => res'.code = 400 /\ res'.error # ""
     /\ /\ res'.op \in TrackOps \cup {PostAdvance, PostSubscribe}
        /\ res'.id # <<>>
        /\ res'.id \notin DOMAIN demoOrders
        => /\ res'.code = 404 \/ (res'.op = PostSubscribe /\ res'.code = 400)
           /\ res'.error # ""
     /\ res' # res /\ res'.code \in {400, 404}
        => demoOrders' = demoOrders /\ subsFile' = subsFile /\ subsExists' = subsExists]_vars

\* the recipients of the calls an advance response reports
Recipients(attempts) == [i \in DOMAIN attempts |-> attempts[i].to]

\* the addresses of the first n records of the file that name orderId
AddressesFor(orderId, n) ==
  LET sel == SelectSeq(SubSeq(subsFile, 1, n), LAMBDA sub : sub.orderId = orderId)
  IN  [i \in DOMAIN sel |-> sel[i].email]

\* C8: every subscribe request that passes validation appends its record to
\* the list, whether or not the list holds an equal record already, and an
\* advance that changes the status calls sendEmailNotification once for each
\* record of that order that the list held when the advance read it, equal
\* records included.
C8_DuplicateSubscriptionsNotified ==
  /\ [][\A id \in RawIds : \A em \in {ToLower(Trim(e)) : e \in RawEmails} :
          SubscribeArrives(normalizeOrderId(id), em)
          => subsFile' = Append(subsFile, [orderId |-> normalizeOrderId(id), email |-> em])]_vars
  /\ [](/\ res.op = PostAdvance
        /\ res.code = 200
        /\ res.body.status # res.body.oldStatus
        => Recipients(res.body.attempts) = AddressesFor(res.id, res.body.nsubs))

\* the list holds two equal records and an advance notified both
C8_Witness ==
  /\ Len(subsFile) >= 2 /\ subsFile[1] = subsFile[2]
  /\ res.op = PostAdvance /\ res.code = 200
  /\ res.id = subsFile[1].orderId
  /\ res.body.status # res.body.oldStatus
  /\ Len(res.body.attempts) = 2
  /\ res.body.attempts[1].to = subsFile[1].email
  /\ res.body.attempts[2].to = subsFile[2].email

\* C4: the order table changes only in a step of the advance handler, and
\* then only in the status of the order the request names; no step adds or
\* deletes an order id or changes an origin, a destination or a place name.
C4_OnlyAdvanceChangesOrders ==
  [][/\ DOMAIN demoOrders' = DOMAIN demoOrders
     /\ \A id \in DOMAIN demoOrders :
          /\ demoOrders'[id].origin = demoOrders[id].origin
          /\ demoOrders'[id].dest = demoOrders[id].dest
          /\ demoOrders'[id].originName = demoOrders[id].originName
          /\ demoOrders'[id].destName = demoOrders[id].destName
          /\ demoOrders'[id].status # demoOrders[id].status =>
               \E raw \in AllIds : Trim(raw) = id /\ Advance(raw)]_vars

\* an advance has changed order 1003, every other order is as seeded, and a
\* later request of another endpoint has been answered
C4_Witness ==
  /\ demoOrders[Id1003].status = "Delivered"
  /\ \A id \in DOMAIN demoOrders \ {Id1003} : demoOrders[id] = SeedOrders[id]
  /\ res.op = PostChat
  /\ res.code = 200
  /\ Len(ReadSubs) = 1
  /\ Len(streams) = 1

\* a query is carrier-prefixed: text, a colon, text
CarrierPrefixed(s) ==
  /\ IndexOf(s, ":") > 0
  /\ Trim(Slice(s, 0, IndexOf(s, ":"))) # <<>>
  /\ Trim(Slice(s, IndexOf(s, ":") + 1, Len(s))) # <<>>

\* C9: with no provider key, a track-any query that is no order id and that
\* none of the tracking-number patterns matches is answered 404 with the
\* "no known link format" error.
C9_UnknownCodeIsNotFound ==
  ( /\ res.op = PostTrackAny
    /\ ~env.AFTERSHIP_API_KEY
    /\ res.id # <<>>
    /\ ~LookupOrder(res.id).found
    /\ \A i \in DOMAIN buildCarrierLinks(res.id) :
         buildCarrierLinks(res.id)[i].carrier \notin PatternCarriers )
  => ( /\ res.code = 404
       /\ res.error = "No provider configured and no known link format for this code" )

\* C10: with no carrier provider key, a carrier-prefixed query is answered
\* with the not-configured message and without a request to the provider:
\* 501 from track-carrier, route carrier-unconfigured from the rule-based
\* chat (no AI key either), the provider-not-configured note from track-any;
\* none of the three answers 500.
C10_CarrierPrefixedWithoutKey ==
  ~env.AFTERSHIP_API_KEY =>
    /\ (res.op = GetTrackCarrier /\ res.code # 400) =>
         res.code = 501 /\ res.calls.carrier = 0
    /\ (res.op = PostChat /\ ~env.OPENAI_API_KEY /\ CarrierPrefixed(res.id)) =>
         /\ res.code = 200
         /\ res.body.route = "carrier-unconfigured"
         /\ res.calls.carrier = 0
    /\ (res.op = PostTrackAny /\ CarrierPrefixed(res.id)) =>
         /\ res.code = 200
         /\ res.body.note = "Provider API not configured; use an official tracking link below."
         /\ res.calls.carrier = 0

\* C11: track-any answers a query that is an order id from the order table,
\* with or without a provider key and without a provider request; with a key
\* it resolves any other query that has a carrier prefix by the one
\* carrier-prefixed lookup (404 when that fails, no detection), and sends
\* only the remaining queries to the detection; it returns the official-site
\* links only when no key is set.
C11_TrackAnyResolutionOrder ==
  [][(res' # res /\ res'.op = PostTrackAny /\ res'.id # <<>>) =>
       LET raw == res'.id
           r == res'
       IN  /\ raw \in DOMAIN demoOrders =>
                /\ r.code = 200
                /\ r.body = buildUnifiedResponse(LookupOrder(raw))
                /\ r.calls.carrier = 0
           /\ (raw \notin DOMAIN demoOrders /\ env.AFTERSHIP_API_KEY /\ CarrierPrefixed(raw)) =>
                /\ r.calls.carrier = 1
                /\ r.code \in {200, 404}
                /\ r.code = 200 =>
                     /\ r.body.carrier = ToLower(Trim(Slice(raw, 0, IndexOf(raw, ":"))))
                     /\ r.body.tracking = Trim(Slice(raw, IndexOf(raw, ":") + 1, Len(raw)))
           /\ (r.code = 200 /\ "links" \in DOMAIN r.body) => ~env.AFTERSHIP_API_KEY
           /\ (raw \notin DOMAIN demoOrders /\ ~env.AFTERSHIP_API_KEY) =>
                r.calls.carrier = 0
           /\ (raw \notin DOMAIN demoOrders /\ env.AFTERSHIP_API_KEY /\ IndexOf(raw, ":") = -1) =>
                /\ r.calls.carrier >= 1
                /\ r.code = 200 => r.body.tracking = raw]_vars

\* with a key, the carrier-prefixed lookup of dhl:12 failed: 404 after one
\* provider request
C11_Witness ==
  /\ env.AFTERSHIP_API_KEY
  /\ res.op = PostTrackAny /\ res.id = <<"d","h","l",":","1","2">>
  /\ res.code = 404 /\ res.calls.carrier = 1

\* C12: the response of an advance that changed the status reports exactly
\* one call of sendEmailNotification for each record of its order that the
\* list held when the handler read it, to that record's address and with the
\* old and the new status, and none for a record of another order; the
\* response of an advance that found the order Delivered reports no call.
C12_OneAttemptPerSubscription ==
  (res.op = PostAdvance /\ res.code = 200 /\ res.id \in DOMAIN demoOrders) =>
    LET attempts == res.body.attempts
        mine == SelectSeq(SubSeq(subsFile, 1, res.body.nsubs),
                          LAMBDA sub : sub.orderId = res.id)
    IN  IF res.body.oldStatus = "Delivered" THEN attempts = <<>>
        ELSE /\ Len(attempts) = Len(mine)
             /\ \A i \in DOMAIN attempts :
                  /\ attempts[i].to = mine[i].email
                  /\ attempts[i].oldStatus = res.body.oldStatus
                  /\ StageOf(attempts[i].newStatus) = StageOf(res.body.oldStatus) + 1

\* the list holds a record of another order and a record of order 1001, and
\* the advance of order 1001 from Processing reported one call
C12_Witness ==
  /\ Len(subsFile) = 2
  /\ subsFile[1].orderId = IdConstructor /\ subsFile[2].orderId = Id1001
  /\ res.op = PostAdvance /\ res.code = 200 /\ res.id = Id1001
  /\ res.body.nsubs = 2
  /\ Len(res.body.attempts) = 1
  /\ res.body.attempts[1].oldStatus = "Processing"
  /\ res.body.attempts[1].newStatus = "Packed"

C14_SubscribeWithoutMailTransport ==
  [][\A orderId \in RawIds, email \in RawEmails :
       LET id == normalizeOrderId(orderId)
           em == ToLower(Trim(email))
       IN  (~emailTransporter /\ id \in DOMAIN demoOrders /\ em # <<>>) =>
             /\ Len(ReadSubs) < MaxSubs =>
                  ENABLED (Subscribe(orderId, email) /\ res'.code = 200)
             /\ Subscribe(orderId, email) =>
                  /\ subsExists'
                  /\ subsFile' = Append(ReadSubs, [orderId |-> id, email |-> em])
                  /\ res'.op = PostSubscribe /\ res'.id = id
                  /\ res'.code = 200 /\ res'.error = ""
                  /\ res'.body = [ok |-> TRUE, emailSent |-> FALSE]
                  /\ inflight' = inflight]_vars

\* without mail transport, the subscription for order 1001 was stored in a
\* new file and answered
C14_Witness ==
  /\ ~emailTransporter /\ inflight = <<>>
  /\ subsExists /\ Len(subsFile) = 1 /\ subsFile[1].orderId = Id1001
  /\ subsFile[1].email = <<"a","@","x",".","i","o">>
  /\ res.op = PostSubscribe /\ res.code = 200 /\ res.id = Id1001
  /\ res.body.ok /\ ~res.body.emailSent

\* C15: with the AI key set, a chat request all of whose completion calls
\* fail is answered with the route and the reply that the rule-based (regex)
\* part gives the same message when no AI key is set.
C15_AiFailureFallsBackToRegexPath ==
  [][\A message \in ChatMessages : \A fetch \in FetchFor(message) :
       LET regex == RuleBasedWith(FALSE, ChatFacts[message], fetch, NoAi, 0, 0).body
       IN  (env.OPENAI_API_KEY /\ ChatFacts[message].msg # <<>>) =>
             /\ (\E fetch1 \in FetchFor(message) : Chat(message, fetch1, NoAi, fetch, NoAi)) =>
                  res'.body.route = regex.route /\ res'.body.reply = regex.reply
             /\ ChatAI(message, fetch, NoAi) =>
                  res'.body.route = regex.route /\ res'.body.reply = regex.reply]_vars

\* ------------------------------------------------------------------------
\* The carrier adapter alone: the handlers that ask the tracking provider,
\* with the tags the provider may send
\* ------------------------------------------------------------------------
\* the tags mapAfterShipTag compares with
TableTags ==
  {<<"p","e","n","d","i","n","g">>, <<"i","n","f","o","_","r","e","c","e","i","v","e","d">>, <<"i","n","t","r","a","n","s","i","t">>, <<"i","n","_","t","r","a","n","s","i","t">>, <<"o","u","t","f","o","r","d","e","l","i","v","e","r","y">>,
   <<"o","u","t","_","f","o","r","_","d","e","l","i","v","e","r","y">>, <<"d","e","l","i","v","e","r","e","d">>, <<"e","x","c","e","p","t","i","o","n">>, <<"f","a","i","l","e","d","_","a","t","t","e","m","p","t">>, <<"e","x","p","i","r","e","d">>, <<"c","a","n","c","e","l","e","d">>}

\* tr.tag || tr.subtag: the tags of the table in lower case, in upper case
\* and capitalised; tags as the provider spells them; a tag with a space;
\* no tag at all
Tags ==
  LET UpperChar(c) ==
        IF c \in LowerSet
          THEN UpperLetters[CHOOSE i \in DOMAIN LowerLetters : LowerLetters[i] = c]
          ELSE c
      Upper(s) == [i \in DOMAIN s |-> UpperChar(s[i])]
      Capital(s) == [i \in DOMAIN s |-> IF i = 1 THEN UpperChar(s[i]) ELSE s[i]]
  IN  TableTags \cup {Upper(s) : s \in TableTags} \cup {Capital(s) : s \in TableTags} \cup
      {<<"I","n","T","r","a","n","s","i","t">>, <<"O","u","t","F","o","r","D","e","l","i","v","e","r","y">>, <<"I","n","f","o","R","e","c","e","i","v","e","d">>, <<"A","t","t","e","m","p","t","F","a","i","l">>,
       <<"A","v","a","i","l","a","b","l","e","F","o","r","P","i","c","k","u","p">>, <<"d","e","l","i","v","e","r","e","d"," ">>, <<"i","n"," ","t","r","a","n","s","i","t">>, <<>>}

\* a tracking with this tag and these points
Tracking(tag, pts) == [kind |-> "ok", tag |-> tag, pts |-> pts]

TagChoices ==
  IF env.AFTERSHIP_API_KEY
    THEN {Tracking(tag, pts) : tag \in Tags, pts \in {<<>>, Checkpoints}} \cup
         {o \in ProviderOutcomes : o.kind = "missing"}
    ELSE {NotCalled}

NextCarrier ==
  \/ \E q \in CarrierQueries, o \in TagChoices : TrackCarrier(q, o)
  \/ \E query \in {<<"d","h","l",":","1","2">>, <<"1","2","3","4","5","6","7","8","9","0","1","2">>}, o \in TagChoices :
       TrackAny(query, [ok |-> TRUE, slugs |-> <<<<"d","h","l">>>>], <<o>>)
  \/ \E o \in TagChoices, ai \in AiChoices : Chat(<<"d","h","l",":","1","2">>, o, ai, o, NoAi)

SpecCarrier == InitAll /\ [][NextCarrier]_vars

\* ------------------------------------------------------------------------
\* C16
\* ------------------------------------------------------------------------
\* the fixed table of the tag mapping
TagTable(t) ==
  CASE t \in {<<"p","e","n","d","i","n","g">>, <<"i","n","f","o","_","r","e","c","e","i","v","e","d">>} -> [status |-> "Processing", progress |-> 15]
    [] t \in {<<"i","n","t","r","a","n","s","i","t">>, <<"i","n","_","t","r","a","n","s","i","t">>} -> [status |-> "In Transit", progress |-> 70]
    [] t \in {<<"o","u","t","f","o","r","d","e","l","i","v","e","r","y">>, <<"o","u","t","_","f","o","r","_","d","e","l","i","v","e","r","y">>} -> [status |-> "Out for Delivery", progress |-> 85]
    [] t = <<"d","e","l","i","v","e","r","e","d">> -> [status |-> "Delivered", progress |-> 100]
    [] t \in {<<"e","x","c","e","p","t","i","o","n">>, <<"f","a","i","l","e","d","_","a","t","t","e","m","p","t">>} -> [status |-> "Exception", progress |-> 50]
    [] t \in {<<"e","x","p","i","r","e","d">>, <<"c","a","n","c","e","l","e","d">>} -> [status |-> "Canceled", progress |-> 0]

\* C16: for every tag, mapAfterShipTag returns the table entry of the tag in
\* lower case if the table has it, and Shipped with progress 50 if not (no
\* tag included); /api/track-carrier answers a tracking with that status and
\* progress.
C16_TagMapping ==
  /\ [](\A tag \in Tags :
          mapAfterShipTag(tag) = IF ToLower(tag) \in TableTags THEN TagTable(ToLower(tag))
                                 ELSE [status |-> "Shipped", progress |-> 50])
  /\ [][(env.AFTERSHIP_API_KEY /\ res'.op = GetTrackCarrier /\ res'.code = 200) =>
          \A tag \in Tags, pts \in {<<>>, Checkpoints} :
            TrackCarrier([carrier |-> <<"d","h","l">>, tracking |-> <<"1","2">>], Tracking(tag, pts)) =>
              IF ToLower(tag) \in TableTags
                THEN /\ res'.body.status = TagTable(ToLower(tag)).status
                     /\ res'.body.progress = TagTable(ToLower(tag)).progress
                ELSE res'.body.status = "Shipped" /\ res'.body.progress = 50]_vars

\* /api/track-carrier answered a tracking whose tag was expired or canceled,
\* in some case of letters
C16_Witness ==
  /\ res.op = GetTrackCarrier /\ res.code = 200
  /\ res.body.status = "Canceled" /\ res.body.progress = 0

\* C17: every status that a handler answers from a tracking of the provider
\* (through mapAfterShipTag, and unifyCarrierResult where the handler uses
\* it) is a key of statusMeta, and the progress answered with it is the
\* percentage statusMeta has for that status.
C17_AdapterStatusInVocabulary ==
  LET data == IF res.op = PostChat THEN res.body.data ELSE res.body
  IN  (/\ res.code = 200 /\ res.calls.carrier > 0
       /\ \/ res.op \in {GetTrackCarrier, PostTrackAny}
          \/ res.op = PostChat /\ res.body.route = "carrier") =>
        /\ data.status \in DOMAIN statusMeta
        /\ data.progress = statusMeta[data.status]

\* C18: in every track response for an order with origin and destination,
\* each coordinate of current is origin + (dest - origin) * progress / 100
\* (current is in units of 1e-6 degree, origin and dest in 1e-4): current is
\* the origin at progress 0 and the destination at progress 100, and for a
\* progress strictly between it lies on the segment from origin to dest:
\* the same fraction of the way in both coordinates, and between them.
C18_CurrentIsInterpolated ==
  \A id \in DOMAIN demoOrders, op \in TrackOps :
    LET b == TrackReply(op, id).body
        o == b.origin
        d == b.dest
        cur == b.current
        Between(x, u, v) == (u <= x /\ x <= v) \/ (v <= x /\ x <= u)
    IN  (o # NoPoint /\ d # NoPoint) =>
          /\ \A i \in 1..2 : cur[i] = 100 * o[i] + (d[i] - o[i]) * b.progress
          /\ b.progress = 0 => cur = <<100 * o[1], 100 * o[2]>>
          /\ b.progress = 100 => cur = <<100 * d[1], 100 * d[2]>>
          /\ (0 < b.progress /\ b.progress < 100) =>
               /\ \E k \in 1..99 : \A i \in 1..2 : cur[i] - 100 * o[i] = k * (d[i] - o[i])
               /\ \A i \in 1..2 : Between(cur[i], 100 * o[i], 100 * d[i])

\* a track endpoint answered for order 1001 In Transit: current is 70
\* hundredths of the way from Delhi to Mumbai, away from both
C18_Witness ==
  /\ res.op \in TrackOps /\ res.code = 200 /\ res.id = Id1001
  /\ res.body.progress = 70
  /\ res.body.current = <<28613900 + (190760 - 286139) * 70, 77209000 + (728777 - 772090) * 70>>
  /\ res.body.current # <<28613900, 77209000>>
  /\ res.body.current # <<19076000, 72877700>>

\* C20: no response was made with more than one completion request to the
\* AI provider, and none with more than one lookup of the same carrier and
\* tracking number (the auto-detection of /api/track-any asks once per
\* detected carrier, which are different lookups).
C20_NoRetries ==
  /\ res.calls.ai <= 1
  /\ (\/ res.op \in {PostChat, PostChatAI, GetTrackCarrier}
      \/ res.op = PostTrackAny /\ CarrierPrefixed(res.id)) => res.calls.carrier <= 1

\* ------------------------------------------------------------------------
\* Geocoding with the file cache
\* ------------------------------------------------------------------------
\* the place names geocodePlace is called with (mkQuery of a checkpoint)
GeoQueries == {<<"P","u","n","e">>, <<" ","p","u","n","e">>, <<"G","o","a">>, <<>>}

\* String(query).trim().toLowerCase()
GeoKey(query) == ToLower(Trim(query))

\* how a request to the geocoding service ends: a first result, an empty
\* array, a body that does not parse, or a connection error
GeoAnswers == {"hit", "empty", "garbled", "error"}

\* the value geocodePlace resolves to
GeoResult(query, hit) == Reply("geocodePlace", query, 0, [hit |-> hit])

\* geocodePlace(query) up to its await: a truthy cache entry is returned at
\* once, otherwise the request is sent
GeocodeCall(query) ==
  LET key == GeoKey(query)
      cache == geoCache
  IN  IF query = <<>>
        THEN /\ res' = GeoResult(query, Null)
             /\ UNCHANGED <<demoOrders, inherited, subsExists, subsFile, emailTransporter, env, geoCache, geoLookups, inflight, streams, page>>
      ELSE IF key \in DOMAIN cache /\ cache[key] # Null
        THEN /\ res' = GeoResult(query, cache[key])
             /\ UNCHANGED <<demoOrders, inherited, subsExists, subsFile, emailTransporter, env, geoCache, geoLookups, inflight, streams, page>>
      ELSE /\ Len(geoLookups) < MaxLookups
           /\ geoLookups' = Append(geoLookups, [query |-> query, key |-> key, cache |-> cache])
           /\ UNCHANGED <<demoOrders, inherited, subsExists, subsFile, emailTransporter, env, geoCache, inflight, streams, res, page>>

\* the k-th waiting call gets its answer: cache[key] = hit; saveGeoCache(cache)
\* with the cache object this call loaded, or null without saving
GeocodeEnd(k, answer) ==
  LET l == geoLookups[k]
      hit == IF answer = "hit"
               THEN (IF l.key = <<"p","u","n","e">> THEN <<185204, 738567>> ELSE <<152993, 741240>>)
               ELSE Null
      cache == [key \in DOMAIN l.cache \cup {l.key} |-> IF key = l.key THEN hit ELSE l.cache[key]]
  IN  /\ geoLookups' = RemoveAt(geoLookups, k)
      /\ geoCache' = IF answer \in {"hit", "empty"} THEN cache ELSE geoCache
      /\ res' = GeoResult(l.query, hit)
      /\ UNCHANGED <<demoOrders, inherited, subsExists, subsFile, emailTransporter, env, inflight, streams, page>>

NextGeo ==
  \/ \E query \in GeoQueries : GeocodeCall(query)
  \/ \E k \in DOMAIN geoLookups, answer \in GeoAnswers : GeocodeEnd(k, answer)

SpecGeo == InitAll /\ [][NextGeo]_vars

\* C19: a place key stored with a coordinate keeps it in the persisted cache
\* at every step, whatever calls of geocodePlace are waiting, and a call for
\* that place returns the stored coordinate and sends no request.
C19_GeoCacheNeverEvicts ==
  [][\A key \in DOMAIN geoCache :
       geoCache[key] # Null =>
         /\ key \in DOMAIN geoCache' /\ geoCache'[key] = geoCache[key]
         /\ \A query \in GeoQueries :
              (GeoKey(query) = key /\ GeocodeCall(query)) =>
                /\ geoLookups' = geoLookups
                /\ res'.body.hit = geoCache[key]]_vars

\* ------------------------------------------------------------------------
\* C21
\* ------------------------------------------------------------------------
\* GET /api/track of the original server (server.js), on the same order
\* table: the id is not trimmed, the response has the legacy fields only
LegacyTrack(raw) ==
  LET rec == LookupOrder(raw)
  IN  IF raw = <<>> THEN Fail(GetTrack, raw, 400, "orderId required")
      ELSE IF ~rec.found THEN Fail(GetTrack, raw, 404, "Order not found")
      ELSE Reply(GetTrack, raw, 200,
             [status |-> rec.status,
              progress |-> IF rec.status \in DOMAIN statusMeta THEN statusMeta[rec.status] ELSE 40,
              origin |-> rec.origin,
              dest |-> rec.dest,
              polyline |-> buildPolyline(rec.origin, rec.dest)])

\* the three forms of the track request answer alike, and as the original
\* handler answers the id sent
TrackFormsAgree(raw, sent) ==
  LET get == TrackReply(GetTrack, normalizeOrderId(FirstTruthy(raw, <<>>, <<>>)))
      param == TrackReply(GetTrackParam, normalizeOrderId(raw))
      post == TrackReply(PostTrack,
                PostOrderId([orderId |-> raw, id |-> <<>>, order_id |-> <<>>, query |-> <<>>]))
      old == LegacyTrack(sent)
      Legacy(b) == [status |-> b.status, progress |-> b.progress, origin |-> b.origin,
                    dest |-> b.dest, polyline |-> b.polyline]
  IN  /\ get.code = param.code /\ get.code = post.code
      /\ get.error = param.error /\ get.error = post.error
      /\ get.body = param.body /\ get.body = post.body
      /\ get.code = old.code /\ get.error = old.error
      /\ get.code = 200 => Legacy(get.body) = old.body

\* C21, as claimed: for every id a request may carry, the three forms answer
\* alike and as the original handler answers that id.
C21_TrackFormsAsOriginal == \A raw \in RawIds \cup DOMAIN demoOrders : TrackFormsAgree(raw, raw)

\* C21, amended: the three forms answer alike and as the original handler
\* answers the id without the white space around it; for an id without such
\* white space that is the id itself.
C21_TrackFormsAsOriginalTrimmed ==
  \A raw \in RawIds \cup DOMAIN demoOrders :
    /\ TrackFormsAgree(raw, Trim(raw))
    /\ raw = Trim(raw) => TrackFormsAgree(raw, raw)

\* POST /api/track answered for order 1001 after one advance, with the
\* fields the original handler gives
C21_Witness ==
  /\ res.op = PostTrack /\ res.code = 200 /\ res.id = Id1001
  /\ res.body.status = "Packed"
  /\ res.body.progress = LegacyTrack(Id1001).body.progress
  /\ res.body.polyline = LegacyTrack(Id1001).body.polyline

\* ------------------------------------------------------------------------
\* C22
\* ------------------------------------------------------------------------
\* C22: every step keeps the records of the subscriptions file, in their
\* order; a subscribe request that passes validation appends its own record
\* to them in the step that answers it or suspends it, whatever handlers
\* wait for the mail transport, and no other step adds a record: the file
\* holds one record for each such request.
C22_NoAppendLost ==
  [][/\ Len(subsFile') >= Len(subsFile)
     /\ SubSeq(subsFile', 1, Len(subsFile)) = subsFile
     /\ (\/ Len(inflight') > Len(inflight)
         \/ inflight' = inflight /\ res'.op = PostSubscribe /\ res'.code = 200) =>
        \A orderId \in RawIds, email \in RawEmails :
          (/\ normalizeOrderId(orderId) # <<>> /\ ToLower(Trim(email)) # <<>>
           /\ LookupOrder(normalizeOrderId(orderId)).found
           /\ SubscribeUpTo(MaxWaiting, orderId, email)) =>
            subsFile' = Append(subsFile, [orderId |-> normalizeOrderId(orderId),
                                          email |-> ToLower(Trim(email))])
     /\ subsFile' # subsFile =>
          /\ Len(subsFile') = Len(subsFile) + 1
          /\ \E orderId \in RawIds, email \in RawEmails : SubscribeUpTo(MaxWaiting, orderId, email)]_vars

\* two subscribe handlers wait for the mail transport at once, and the file
\* holds the record of each
C22_Witness ==
  /\ Len(inflight) = 2
  /\ inflight[1].kind = "subscribe" /\ inflight[2].kind = "subscribe"
  /\ Len(subsFile) = 2
  /\ subsFile[1].orderId = Id1001 /\ inflight[1].id = Id1001
  /\ subsFile[2].orderId = Id1001 /\ inflight[2].id = Id1001

\* ------------------------------------------------------------------------
\* C23
\* ------------------------------------------------------------------------
\* C23: a snapshot written on a stream carries the status the order has in
\* the table when it is written; the tick of every connection is ready to
\* write the present status; and of two snapshots written one after the
\* other for an order the second carries the same stage or a later one.
C23_SnapshotsCarryPresentStatus ==
  /\ [](\A k \in DOMAIN streams :
          ENABLED (StreamTick(k) /\ res'.body.status = demoOrders[streams[k].id].status))
  /\ []((res.op = GetStream /\ res.code = 200) =>
          res.body.status = demoOrders[res.id].status)
  /\ [][(res'.op = GetStream /\ res'.code = 200) =>
          /\ res'.body.status = demoOrders'[res'.id].status
          /\ res'.body.progress = ProgressOf(demoOrders'[res'.id].status)
          /\ (res.op = GetStream /\ res.code = 200 /\ res.id = res'.id) =>
               StageOf(res'.body.status) >= StageOf(res.body.status)]_vars

\* the connection for order 1003 was open when the order was advanced, and
\* its tick then wrote the new status with progress 100
C23_Witness ==
  /\ Len(streams) >= 1 /\ streams[1].id = Id1003 /\ streams[1].timers = 1
  /\ demoOrders[Id1003].status = "Delivered"
  /\ res.op = GetStream /\ res.id = Id1003
  /\ res.body.status = "Delivered" /\ res.body.progress = 100

\* ------------------------------------------------------------------------
\* C24
\* ------------------------------------------------------------------------
\* C24: the race a suspended subscribe or advance handler awaits settles
\* whatever the transport does, also when it never answers; the step that
\* answers the handler answers 200, reports a failed send as not sent, and
\* changes neither the subscriptions file nor the order table; and every
\* suspended handler is answered 200 in the end, its record still in the
\* file or its order at the stage it set or a later one.
C24_MailFailureStillAnswers ==
  /\ [](\A k \in DOMAIN inflight, outcome \in MailOutcomes :
          ENABLED MailDone(k, outcome))
  /\ [][Len(inflight') < Len(inflight) =>
          /\ res'.code = 200 /\ res'.error = ""
          /\ res'.op \in {PostSubscribe, PostAdvance}
          /\ subsFile' = subsFile /\ subsExists' = subsExists
          /\ demoOrders' = demoOrders /\ inherited' = inherited
          /\ (res'.op = PostSubscribe /\ ~res'.body.emailSent) =>
               \E i \in DOMAIN subsFile' : subsFile'[i].orderId = res'.id]_vars
  /\ \A kind \in {"subscribe", "advance"}, id \in {Id1001, IdConstructor} :
       (\E k \in DOMAIN inflight : inflight[k].kind = kind /\ inflight[k].id = id)
         ~> (/\ res.code = 200 /\ res.id = id
             /\ res.op = IF kind = "subscribe" THEN PostSubscribe ELSE PostAdvance
             /\ kind = "subscribe" =>
                  \E i \in DOMAIN subsFile : subsFile[i].orderId = id
             /\ kind = "advance" => StageOf(LookupOrder(id).status) >= 2)

\* with a transport configured the send of a subscribe request failed or
\* timed out: the request is answered 200 with emailSent false, no handler
\* waits any more, and the record is in the file
C24_Witness ==
  /\ emailTransporter /\ inflight = <<>>
  /\ res.op = PostSubscribe /\ res.code = 200 /\ res.id = Id1001
  /\ ~res.body.emailSent
  /\ Len(subsFile) = 1 /\ subsFile[1].orderId = Id1001

\* ------------------------------------------------------------------------
\* The browser page
\* ------------------------------------------------------------------------
MaxFetches == 2

\* the ids typed into the track form: two orders of the table and a code
\* that is none
PageIds == {Id1001, Id1003, Id9999}

\* what the status badge, the progress bar and the route line show
Shown(status, progress, route) == [status |-> status, progress |-> progress, route |-> route]

\* setStatus(t.status); setProgress(t.progress); setRoute(t.route) of a body
\* the server built for rec
RenderOf(rec) ==
  Shown(rec.status, ProgressOf(rec.status),
        IF rec.origin = NoPoint \/ rec.dest = NoPoint THEN Null
        ELSE <<rec.originName, rec.destName>>)

\* setStatus('Not found'); setProgress(0); setRoute(null)
RenderNotFound == Shown("Not found", 0, Null)

\* what POST /api/track-any answers the page without provider key: the demo
\* order, or the links of buildCarrierLinks, which are never empty
RenderAny(query) ==
  IF LookupOrder(query).found THEN RenderOf(LookupOrder(query))
  ELSE Shown("Open in carrier site", 0, Null)

\* a request of the page that waits for its response
Fetch(kind, id) == [kind |-> kind, id |-> id]

\* how a fetch ends: with the response of the server, or rejected
FetchOutcomes == {"response", "failed"}

\* the page after init(): followTruck and #follow-toggle are true when the
\* configuration request succeeded and the change listener is attached;
\* otherwise the toggle keeps the state of the markup and has no listener.
\* #live-toggle has the state of the markup
PageInits ==
  UNION {{[followTruck |-> TRUE, followChecked |-> fc, followListens |-> fl,
           liveChecked |-> lc, liveES |-> Null, livePoll |-> FALSE,
           currentOrderId |-> Null, shown |-> Shown("", 0, Null), fetches |-> <<>>] :
            fc \in (IF fl THEN {TRUE} ELSE BOOLEAN)} : fl \in BOOLEAN, lc \in BOOLEAN}

InitPage ==
  /\ demoOrders = SeedOrders
  /\ inherited = [k \in InheritedKeys |-> Undefined]
  /\ subsExists = FALSE
  /\ subsFile = <<>>
  /\ emailTransporter = FALSE
  /\ env = [AFTERSHIP_API_KEY |-> FALSE, OPENAI_API_KEY |-> FALSE]
  /\ geoCache = EmptyCache
  /\ geoLookups = <<>>
  /\ inflight = <<>>
  /\ streams = <<>>
  /\ res = NoResponse
  /\ page \in PageInits

\* stopLive()
stopLive(p) == [p EXCEPT !.liveES = Null, !.livePoll = FALSE, !.followTruck = FALSE]

\* startLive(orderId), up to the events of the EventSource
startLive(p, orderId) == [stopLive(p) EXCEPT !.followTruck = TRUE, !.liveES = orderId]

\* the statement after await loadOrder(id) in the submit handler
AfterLoad(p, id) == IF p.liveChecked THEN startLive(p, id) ELSE stopLive(p)

\* the change event of #follow-toggle, by a click or by the key F
FollowChange ==
  /\ page' = [page EXCEPT !.followChecked = ~page.followChecked,
                          !.followTruck = IF page.followListens THEN ~page.followChecked
                                          ELSE page.followTruck]
  /\ UNCHANGED <<demoOrders, inherited, subsExists, subsFile, emailTransporter, env, geoCache, geoLookups, inflight, streams, res>>

\* the change event of #live-toggle
LiveChange ==
  /\ LET p == [page EXCEPT !.liveChecked = ~page.liveChecked]
     IN  page' = IF p.currentOrderId = Null THEN p
                 ELSE IF p.liveChecked THEN startLive(p, p.currentOrderId)
                 ELSE stopLive(p)
  /\ UNCHANGED <<demoOrders, inherited, subsExists, subsFile, emailTransporter, env, geoCache, geoLookups, inflight, streams, res>>

\* the submit event of #track-form with a non-empty id: loadOrder(id) up to
\* its first await
TrackSubmit(id) ==
  /\ Len(page.fetches) < MaxFetches
  /\ page' = [page EXCEPT !.currentOrderId = id,
                          !.fetches = Append(page.fetches, Fetch("detail", id))]
  /\ UNCHANGED <<demoOrders, inherited, subsExists, subsFile, emailTransporter, env, geoCache, geoLookups, inflight, streams, res>>

\* the k-th fetch of the page ends, and the code after its await runs up to
\* the next await: loadOrder with its fallbacks and then the rest of the
\* submit handler, or the callback of the polling timer
FetchDone(k, outcome) ==
  /\ k \in DOMAIN page.fetches
  /\ LET f == page.fetches[k]
         rec == LookupOrder(f.id)
         ok == outcome = "response" /\ rec.found
         next(kind) == [page EXCEPT !.fetches[k] = Fetch(kind, f.id)]
         done(p) == [p EXCEPT !.fetches = RemoveAt(page.fetches, k)]
     IN  page' =
           CASE f.kind = "detail" ->
                  IF ok THEN [next("eta") EXCEPT !.shown = RenderOf(rec)]
                  ELSE next("track")
             [] f.kind = "eta" -> done(AfterLoad(page, f.id))
             [] f.kind = "track" ->
                  IF ok THEN done(AfterLoad([page EXCEPT !.shown = RenderOf(rec)], f.id))
                  ELSE next("any")
             [] f.kind = "any" ->
                  done(AfterLoad([page EXCEPT !.shown =
                         IF outcome = "response" THEN RenderAny(f.id) ELSE RenderNotFound],
                       f.id))
             [] f.kind = "poll" ->
                  done(IF outcome = "response"
                         THEN [page EXCEPT !.shown = RenderAny(f.id)] ELSE page)
  /\ UNCHANGED <<demoOrders, inherited, subsExists, subsFile, emailTransporter, env, geoCache, geoLookups, inflight, streams, res>>

\* liveES.onmessage with a snapshot of the order the stream was opened for
StreamMessage ==
  /\ page.liveES # Null
  /\ LookupOrder(page.liveES).found
  /\ LET msg == [id |-> page.liveES, body |-> Snapshot(page.liveES).body]
     IN  page' = IF msg.id # page.currentOrderId THEN page
                 ELSE [page EXCEPT !.shown = RenderOf(LookupOrder(msg.id))]
  /\ UNCHANGED <<demoOrders, inherited, subsExists, subsFile, emailTransporter, env, geoCache, geoLookups, inflight, streams, res>>

\* liveES.onerror: the stream answered 404 or the connection broke
StreamError ==
  /\ page.liveES # Null
  /\ page' = [page EXCEPT !.liveES = Null, !.livePoll = TRUE]
  /\ UNCHANGED <<demoOrders, inherited, subsExists, subsFile, emailTransporter, env, geoCache, geoLookups, inflight, streams, res>>

\* the polling timer fires: the request for currentOrderId is sent
PollTick ==
  /\ page.livePoll
  /\ Len(page.fetches) < MaxFetches
  /\ page' = [page EXCEPT !.fetches = Append(page.fetches, Fetch("poll", page.currentOrderId))]
  /\ UNCHANGED <<demoOrders, inherited, subsExists, subsFile, emailTransporter, env, geoCache, geoLookups, inflight, streams, res>>

NextPage ==
  \/ FollowChange
  \/ LiveChange
  \/ \E id \in PageIds : TrackSubmit(id)
  \/ \E k \in 1..MaxFetches, outcome \in FetchOutcomes : FetchDone(k, outcome)
  \/ StreamMessage
  \/ StreamError
  \/ PollTick

SpecPage == InitPage /\ [][NextPage]_vars

\* ------------------------------------------------------------------------
\* C25
\* ------------------------------------------------------------------------
\* C25: on a page whose Follow toggle has its change listener, followTruck
\* equals the checked state of the toggle.
C25_FollowTruckIsToggle ==
  page.followListens => page.followTruck = page.followChecked

\* ------------------------------------------------------------------------
\* C26
\* ------------------------------------------------------------------------
\* C26: every record of the subscriptions file names an order id that is an
\* order of the order table.
C26_RecordsNameOrders ==
  \A i \in DOMAIN subsFile : subsFile[i].orderId \in DOMAIN demoOrders

\* ------------------------------------------------------------------------
\* C27
\* ------------------------------------------------------------------------
\* C27: no step lowers the progress of an order of the table; a step that
\* changes its status raises the progress, to 100 at most and to 100 when
\* the status becomes Delivered; a track response for the order carries the
\* progress its status has when the response is made, and of two track
\* responses for it that follow each other the second carries no less than
\* the first.
C27_ProgressNeverDecreases ==
  [][/\ \A id \in DOMAIN demoOrders :
          /\ ProgressOf(demoOrders'[id].status) >= ProgressOf(demoOrders[id].status)
          /\ demoOrders'[id].status # demoOrders[id].status =>
               /\ ProgressOf(demoOrders'[id].status) > ProgressOf(demoOrders[id].status)
               /\ ProgressOf(demoOrders'[id].status) <= 100
               /\ demoOrders'[id].status = "Delivered" <=>
                    ProgressOf(demoOrders'[id].status) = 100
     /\ (/\ res' # res
         /\ res'.op \in TrackOps /\ res'.code = 200 /\ res'.id \in DOMAIN demoOrders) =>
          /\ res'.body.progress = ProgressOf(demoOrders'[res'.id].status)
          /\ (res.op \in TrackOps /\ res.code = 200 /\ res.id = res'.id) =>
               res'.body.progress >= res.body.progress]_vars

\* order 1001 was advanced from Processing to Shipped, and a track request
\* then reported progress 50
C27_Witness ==
  /\ demoOrders[Id1001].status = "Shipped"
  /\ res.op \in TrackOps /\ res.code = 200 /\ res.id = Id1001
  /\ res.body.progress = 50

\* ------------------------------------------------------------------------
\* C28
\* ------------------------------------------------------------------------
\* C28: an advance request for an order of the table changes its status by
\* one stage, also while another advance handler for the order waits for
\* the mail transport, and the response a waiting advance handler makes in
\* the end carries the status that handler set.
C28_ResponseCarriesOwnStatus ==
  [][/\ \A id \in DOMAIN demoOrders :
          demoOrders'[id].status # demoOrders[id].status =>
            StageOf(demoOrders'[id].status) = StageOf(demoOrders[id].status) + 1
     /\ \A k \in DOMAIN inflight :
          (/\ inflight[k].kind = "advance"
           /\ inflight' = RemoveAt(inflight, k)
           /\ res'.op = PostAdvance /\ res'.id = inflight[k].id) =>
            res'.body.status = inflight[k].newStatus]_vars

\* ------------------------------------------------------------------------
\* C29
\* ------------------------------------------------------------------------
\* C29: liveES and livePoll are never both set, and while neither is set
\* (after stopLive, or before any startLive) no stream message and no
\* response to a request of the polling timer changes what the page shows.
C29_OneLiveSource ==
  /\ [](~(page.liveES # Null /\ page.livePoll))
  /\ [][(/\ page.liveES = Null /\ ~page.livePoll
         /\ \/ StreamMessage
            \/ \E k \in DOMAIN page.fetches :
                 /\ page.fetches[k].kind = "poll"
                 /\ page'.fetches = RemoveAt(page.fetches, k)) =>
          page'.shown = page.shown]_vars

\* ------------------------------------------------------------------------
\* C30
\* ------------------------------------------------------------------------
\* what a load of the order id, a poll or a stream message for it can make
\* the page show
ShownFor(id) == {RenderAny(id), RenderNotFound}

\* C30: while the page waits for no response, what it shows is what a
\* request for currentOrderId renders; no response to a request that was
\* sent for another id than the present currentOrderId changes what the page
\* shows; and a stream message for another id changes nothing.
C30_ShownIsOfCurrentOrder ==
  /\ []((page.currentOrderId # Null /\ page.fetches = <<>>) =>
          page.shown \in ShownFor(page.currentOrderId))
  /\ [][/\ \A k \in DOMAIN page.fetches :
             (/\ page.fetches[k].id # page.currentOrderId
              /\ \/ page'.fetches = RemoveAt(page.fetches, k)
                 \/ /\ Len(page'.fetches) = Len(page.fetches)
                    /\ page'.fetches[k] # page.fetches[k]) =>
               page'.shown = page.shown
        /\ (StreamMessage /\ page.liveES # page.currentOrderId) => page' = page]_vars

====
